---------------------------- MODULE Spec2Model ----------------------------
(***************************************************************************)
(* A model of the chromatrix colour engine: the buffer pool (shared.ts),   *)
(* the adapters, the routing tables and convertColor (convert.ts), the     *)
(* colour life cycle (mutateColor / deriveColor) and the utilities that    *)
(* borrow buffers from the pool.                                           *)
(*                                                                         *)
(* Numbers.  A Float32Array slot is modelled as a fixed-point integer:     *)
(* the real value x is held as round(x * Scale).  Matrix coefficients are  *)
(* held as round(k * CoefScale).  Transcendental functions (pow, cbrt,     *)
(* atan2, cos, sin) are integer approximations of the Math.* functions.    *)
(*                                                                         *)
(* Buffers.  A buffer reference is a positive integer; heap maps every     *)
(* live reference to its three slots.  A machine state m is a record       *)
(* [heap, pool, log]; every modelled function takes a machine state and    *)
(* returns the next one, appending to log one event per createMatrix,      *)
(* dropMatrix, adapter call and output.set(input).                         *)
(***************************************************************************)
EXTENDS Integers, Sequences, FiniteSets, TLC

VARIABLES
    pool,    \* shared.ts `pool`: the free-list, a sequence of buffer references
    heap,    \* contents of every live Float32Array(3): reference -> <<x0, x1, x2>>
    held,    \* raw matrices the caller holds (references)
    colors,  \* Color objects the caller holds: handle -> [space, value, alpha]
    last,    \* the last completed call: its name, arguments, result and event log
    picker   \* picker.ts: the state one createPicker closes over

vars == <<pool, heap, held, colors, last, picker>>

----------------------------------------------------------------------------
(* Fixed-point arithmetic *)

\* resolution of a slot: x is held as round(x * Scale)
Scale == 100

\* resolution of a matrix coefficient
CoefScale == 10000

\* binary digits kept of a fractional exponent in Pow
PowDigits == 8

\* JavaScript computes a value once and then uses it.  A statement
\* `const x = v` followed by an expression e is written
\*     CHOOSE it \in {e : x \in {v}} : TRUE
\* which is e with x standing for the value of v, v evaluated first and only
\* once.  A sequence of statements lists its bindings after the result, the
\* first statement on the last line.

Abs(x) == IF x < 0 THEN -x ELSE x

Min2(a, b) == IF a < b THEN a ELSE b

Max2(a, b) == IF a > b THEN a ELSE b

\* a / b rounded to the nearest integer (b > 0)
RoundDiv(a, b) == (2 * a + b) \div (2 * b)

\* x * y of two fixed-point numbers
Mul(x, y) == RoundDiv(x * y, Scale)

\* x / y of two fixed-point numbers (y # 0)
Div(x, y) == IF y > 0 THEN RoundDiv(x * Scale, y) ELSE -RoundDiv(x * Scale, -y)

\* k * x, k a coefficient held at CoefScale
Coef(k, x) == RoundDiv(k * x, CoefScale)

\* JavaScript's a % n on numbers: the remainder takes the sign of a
JsMod(a, n) == IF a >= 0 THEN a % n ELSE -((-a) % n)

\* r^k for k = 2 or 3
RootPower(r, k) == IF k = 2 THEN r * r ELSE r * r * r

\* the largest r in lo..hi with r^k <= n (k = 2 or 3), lo when there is none:
\* the block of 256 values that holds it is found first, then r in the block
RootSearch(n, k, lo, hi) ==
    IF RootPower(lo, k) > n THEN lo
    ELSE CHOOSE it \in {
             CHOOSE r \in Max2(lo, q * 256)..Min2(hi, q * 256 + 255) :
                 /\ RootPower(r, k) <= n
                 /\ \/ r = Min2(hi, q * 256 + 255)
                    \/ RootPower(r + 1, k) > n
             : q \in {CHOOSE q \in (lo \div 256)..(hi \div 256) :
                      /\ RootPower(Max2(lo, q * 256), k) <= n
                      /\ \/ q = hi \div 256
                         \/ RootPower((q + 1) * 256, k) > n}} : TRUE

\* Math.sqrt on a fixed-point number x >= 0
Sqrt(x) == CHOOSE it \in {
               (RootSearch(n, 2, 0, 46340) + 1) \div 2
               : n \in {4 * x * Scale}} : TRUE

\* Math.cbrt on a fixed-point number (odd function)
Cbrt(x) ==
    CHOOSE it \in {
        IF n >= 0 THEN RootSearch(n, 3, 0, 1290) ELSE -RootSearch(-n, 3, 0, 1290)
        : n \in {x * Scale * Scale}} : TRUE

RECURSIVE PowBits(_, _, _, _)
\* x ^ (num/den) for 0 <= num/den < 1, by the binary digits of num/den:
\* x^(0.b1 b2 ...) = prod over set digits bi of x^(1/2^i)
PowBits(x, num, den, n) ==
    IF n = 0 \/ num = 0 THEN Scale
    ELSE CHOOSE it \in {
             IF 2 * num >= den
                 THEN Mul(r, PowBits(r, 2 * num - den, den, n - 1))
                 ELSE PowBits(r, 2 * num, den, n - 1)
             : r \in {Sqrt(x)}} : TRUE

RECURSIVE PowInt(_, _)
PowInt(x, k) == IF k = 0 THEN Scale ELSE Mul(x, PowInt(x, k - 1))

\* x ** (num/den) for a fixed-point x >= 0
Pow(x, num, den) ==
    CHOOSE it \in {
        IF b = 0 THEN 0
            ELSE Mul(PowInt(b, num \div den),
                     PowBits(b, num % den, den, PowDigits))
        : b \in {x}} : TRUE

\* Math.sin of an angle in fixed-point degrees (Bhaskara's approximation)
SinDeg(d) ==
    LET a == d % (360 * Scale)
        x == IF a <= 180 * Scale THEN a ELSE a - 180 * Scale
        p == x * (180 * Scale - x)
        s == (4 * p) \div (40500 * Scale - p \div Scale)
    IN  IF a <= 180 * Scale THEN s ELSE -s

\* Math.cos of an angle in fixed-point degrees
CosDeg(d) == SinDeg(d + 90 * Scale)

\* atan(z) in fixed-point degrees for a fixed-point 0 <= z <= 1
AtanUnit(z) == (z * (45 * Scale + (1564 * (Scale - z)) \div 100)) \div Scale

\* Math.atan2(y, x) * RAD_TO_DEG, in fixed-point degrees in (-180, 180]
Atan2Deg(y, x) ==
    LET ax == Abs(x)
        ay == Abs(y)
        a0 == IF ax = 0 /\ ay = 0 THEN 0
              ELSE IF ax >= ay THEN AtanUnit(Div(ay, ax))
              ELSE 90 * Scale - AtanUnit(Div(ax, ay))
        a1 == IF x < 0 THEN 180 * Scale - a0 ELSE a0
    IN  IF y < 0 THEN -a1 ELSE a1


----------------------------------------------------------------------------
(* The buffer pool: shared.ts *)

MAX_POOL_SIZE == 256

Event(ev, name, src, dst) == [ev |-> ev, name |-> name, src |-> src, dst |-> dst]

\* the reference of a newly constructed Float32Array: one no live buffer has
FreshRef(h) == CHOOSE n \in 1..(Cardinality(DOMAIN h) + 1) : n \notin DOMAIN h

\* createMatrix taking the oldest free buffer (pool.shift()) instead of the newest
createMatrixShift(st) ==
    IF Len(st.pool) > 0
    THEN [st  |-> [heap |-> st.heap,
                   pool |-> Tail(st.pool),
                   log  |-> Append(st.log, Event("createMatrix", "pool", 0, Head(st.pool)))],
          buf |-> Head(st.pool)]
    ELSE [st  |-> [heap |-> st.heap @@ (FreshRef(st.heap) :> <<0, 0, 0>>),
                   pool |-> st.pool,
                   log  |-> Append(st.log, Event("createMatrix", "fresh", 0, FreshRef(st.heap)))],
          buf |-> FreshRef(st.heap)]

\* dropMatrix without the capacity test
dropMatrixUnbounded(st, arr) ==
    [st EXCEPT !.pool = Append(@, arr),
               !.log = Append(@, Event("dropMatrix", "kept", arr, 0))]

\* createMatrix: pool.pop() ?? new Float32Array(3).  The result is the next
\* machine state st and the reference buf that is returned.
createMatrix(st) ==
    IF Len(st.pool) > 0
    THEN LET b == st.pool[Len(st.pool)]
         IN  [st  |-> [heap |-> st.heap,
                       pool |-> SubSeq(st.pool, 1, Len(st.pool) - 1),
                       log  |-> Append(st.log, Event("createMatrix", "pool", 0, b))],
              buf |-> b]
    ELSE LET b == FreshRef(st.heap)
         IN  [st  |-> [heap |-> st.heap @@ (b :> <<0, 0, 0>>),
                       pool |-> st.pool,
                       log  |-> Append(st.log, Event("createMatrix", "fresh", 0, b))],
              buf |-> b]

\* dropMatrix: push unless the pool already holds MAX_POOL_SIZE buffers
dropMatrix(st, arr) ==
    IF Len(st.pool) < MAX_POOL_SIZE
    THEN [st EXCEPT !.pool = Append(@, arr),
                    !.log = Append(@, Event("dropMatrix", "kept", arr, 0))]
    ELSE [st EXCEPT !.log = Append(@, Event("dropMatrix", "discarded", arr, 0))]

\* input[i], i in 0..2
Rd(st, b, i) == st.heap[b][i + 1]

\* output[i] = v
Wr(st, b, i, v) == [st EXCEPT !.heap[b][i + 1] = v]

\* output.set(input)
SetFrom(st, input, output) ==
    [st EXCEPT !.heap[output] = st.heap[input],
               !.log = Append(@, Event("set", "set", input, output))]

----------------------------------------------------------------------------
(* adapters/srgb.ts *)

rgbToHsv(st, input, output) ==
    LET r == Rd(st, input, 0)
        g == Rd(st, input, 1)
        b == Rd(st, input, 2)
        v == Max2(r, Max2(g, b))
        min == Min2(r, Min2(g, b))
        c == v - min
        s == IF v # 0 THEN Div(c, v) ELSE 0
        hs == IF v = r THEN Div(g - b, c)
              ELSE IF v = g THEN Div(b - r, c) + 2 * Scale
              ELSE Div(r - g, c) + 4 * Scale
        h == IF c # 0
             THEN (IF hs * 60 < 0 THEN hs * 60 + 360 * Scale ELSE hs * 60)
             ELSE 0
        s1 == Wr(st, output, 0, h)
        s2 == Wr(s1, output, 1, s)
    IN  Wr(s2, output, 2, v)

hsvToRgb(st, input, output) ==
    LET h60 == RoundDiv(Rd(st, input, 0), 60)
        s == Rd(st, input, 1)
        v == Rd(st, input, 2)
        c == Mul(v, s)
        x == Mul(c, Scale - Abs(JsMod(h60, 2 * Scale) - Scale))
        mm == v - c
        f == JsMod(h60 \div Scale, 6)
        r == IF f \in {0, 5} \/ f < 0 THEN c ELSE IF f \in {1, 4} THEN x ELSE 0
        g == IF f \in {1, 2} THEN c ELSE IF f \in {0, 3} THEN x ELSE 0
        b == IF f \in {3, 4} THEN c ELSE IF f = 2 \/ f = 5 \/ f < 0 THEN x ELSE 0
    IN  IF s = 0
        THEN Wr(Wr(Wr(st, output, 2, v), output, 1, v), output, 0, v)
        ELSE Wr(Wr(Wr(st, output, 0, r + mm), output, 1, g + mm), output, 2, b + mm)

hsvToHsl(st, input, output) ==
    LET h == Rd(st, input, 0)
        s == Rd(st, input, 1)
        v == Rd(st, input, 2)
        l == Mul(v, Scale - RoundDiv(s, 2))
        sL == IF l > 0 /\ l < Scale THEN Div(v - l, Min2(l, Scale - l)) ELSE 0
    IN  Wr(Wr(Wr(st, output, 0, h), output, 1, sL), output, 2, l)

hslToHsv(st, input, output) ==
    LET h == Rd(st, input, 0)
        s == Rd(st, input, 1)
        l == Rd(st, input, 2)
        v == l + Mul(s, Min2(l, Scale - l))
        sV == IF v = 0 THEN 0 ELSE 2 * (Scale - Div(l, v))
    IN  Wr(Wr(Wr(st, output, 0, h), output, 1, sV), output, 2, v)

hsvToHwb(st, input, output) ==
    LET h == Rd(st, input, 0)
        s == Rd(st, input, 1)
        v == Rd(st, input, 2)
    IN  Wr(Wr(Wr(st, output, 0, h), output, 1, Mul(v, Scale - s)), output, 2, Scale - v)

hwbToHsv(st, input, output) ==
    LET h == Rd(st, input, 0)
        w == Rd(st, input, 1)
        b == Rd(st, input, 2)
        v == Scale - b
        s == IF v = 0 THEN 0 ELSE Div(v - w, v)
    IN  Wr(Wr(Wr(st, output, 0, h), output, 1, IF s < 0 THEN 0 ELSE s), output, 2, v)

----------------------------------------------------------------------------
(* adapters/gamma.ts *)

\* one channel of rgbToLrgb
GammaDecode(r) ==
    IF r * 100000 <= 4045 * Scale
    THEN RoundDiv(r * 100, 1292)
    ELSE Pow(RoundDiv(r * 1000 + 55 * Scale, 1055), 12, 5)

\* one channel of lrgbToRgb, negative input clamped to 0
GammaEncode(l) ==
    LET c == IF l < 0 THEN 0 ELSE l
    IN  IF c * 100000 <= 313 * Scale
        THEN RoundDiv(c * 1292, 100)
        ELSE RoundDiv(1055 * Pow(c, 5, 12), 1000) - RoundDiv(55 * Scale, 1000)

rgbToLrgb(st, input, output) ==
    LET r == Rd(st, input, 0)
        g == Rd(st, input, 1)
        b == Rd(st, input, 2)
    IN  Wr(Wr(Wr(st, output, 0, GammaDecode(r)), output, 1, GammaDecode(g)),
           output, 2, GammaDecode(b))

lrgbToRgb(st, input, output) ==
    LET lr == Rd(st, input, 0)
        lg == Rd(st, input, 1)
        lb == Rd(st, input, 2)
    IN  Wr(Wr(Wr(st, output, 0, GammaEncode(lr)), output, 1, GammaEncode(lg)),
           output, 2, GammaEncode(lb))

----------------------------------------------------------------------------
(* adapters/polar.ts *)

toPolar(st, input, output) ==
    LET a == Rd(st, input, 1)
        b == Rd(st, input, 2)
        chroma == RootSearch(a * a + b * b, 2, 0, 46340)
        hue0 == Atan2Deg(b, a)
        hue == IF hue0 < 0 THEN hue0 + 360 * Scale ELSE hue0
        s1 == Wr(st, output, 0, Rd(st, input, 0))
        s2 == Wr(s1, output, 1, chroma)
    IN  Wr(s2, output, 2, hue)

toCartesian(st, input, output) ==
    LET L == Rd(st, input, 0)
        C == Rd(st, input, 1)
        hDeg == Rd(st, input, 2)
        s1 == Wr(st, output, 0, L)
        s2 == Wr(s1, output, 1, Mul(C, CosDeg(hDeg)))
    IN  Wr(s2, output, 2, Mul(C, SinDeg(hDeg)))

labToLch(st, input, output) == toPolar(st, input, output)

oklabToOklch(st, input, output) == toPolar(st, input, output)

lchToLab(st, input, output) == toCartesian(st, input, output)

oklchToOklab(st, input, output) == toCartesian(st, input, output)

----------------------------------------------------------------------------
(* adapters/cat.ts and adapters/d65.ts: matrices, rows first, at CoefScale *)

M_SRGB == <<4125, 3576, 1804, 2127, 7152, 722, 193, 1192, 9503>>

M_SRGB_INV == <<32405, -15371, -4985, -9693, 18760, 416, 556, -2040, 10572>>

M_BRADFORD == <<8951, 2664, -1614, -7502, 17135, 367, 389, -685, 10296>>

M_BRADFORD_INV == <<9870, -1471, 1600, 4323, 5184, 493, -85, 401, 9685>>

\* the reference whites, at CoefScale
WHITE_D65 == <<9505, 10000, 10888>>

WHITE_D50 == <<9642, 10000, 8252>>

\* row i (0..2) of matrix times the vector <<v0, v1, v2>>
Row(matrix, i, v0, v1, v2) ==
    Coef(matrix[3 * i + 1], v0) + Coef(matrix[3 * i + 2], v1) + Coef(matrix[3 * i + 3], v2)

\* multiplyMatrixVector reading the vector while it writes: each row reads
\* vector[0..2] after the rows before it were stored
multiplyMatrixVectorLateRead(st, matrix, vector, output) ==
    CHOOSE it \in {CHOOSE it \in {
        Wr(s2, output, 2,
            Row(matrix, 2, Rd(s2, vector, 0), Rd(s2, vector, 1), Rd(s2, vector, 2)))
        : s2 \in {Wr(s1, output, 1,
                  Row(matrix, 1, Rd(s1, vector, 0), Rd(s1, vector, 1), Rd(s1, vector, 2)))}} : TRUE
        : s1 \in {Wr(st, output, 0,
                  Row(matrix, 0, Rd(st, vector, 0), Rd(st, vector, 1), Rd(st, vector, 2)))}} : TRUE

multiplyMatrixVector(st, matrix, vector, output) ==
    LET v0 == Rd(st, vector, 0)
        v1 == Rd(st, vector, 1)
        v2 == Rd(st, vector, 2)
        s1 == Wr(st, output, 0, Row(matrix, 0, v0, v1, v2))
        s2 == Wr(s1, output, 1, Row(matrix, 1, v0, v1, v2))
    IN  Wr(s2, output, 2, Row(matrix, 2, v0, v1, v2))

\* lmsD65 / lmsD50: M_BRADFORD times a reference white
Lms(white, i) == Row(M_BRADFORD, i, white[1], white[2], white[3])

\* SCALE_D65_TO_D50[i] and SCALE_D50_TO_D65[i], at CoefScale
SCALE_D65_TO_D50(i) == RoundDiv(Lms(WHITE_D50, i) * CoefScale, Lms(WHITE_D65, i))

SCALE_D50_TO_D65(i) == RoundDiv(Lms(WHITE_D65, i) * CoefScale, Lms(WHITE_D50, i))

xyz65ToXyz50(st, input, output) ==
    CHOOSE it \in {CHOOSE it \in {CHOOSE it \in {CHOOSE it \in {CHOOSE it \in {CHOOSE it \in {
        dropMatrix(s5, c.buf)
        : s5 \in {multiplyMatrixVector(s4, M_BRADFORD_INV, c.buf, output)}} : TRUE
        : s4 \in {Wr(s3, c.buf, 2, Coef(SCALE_D65_TO_D50(2), Rd(s3, c.buf, 2)))}} : TRUE
        : s3 \in {Wr(s2, c.buf, 1, Coef(SCALE_D65_TO_D50(1), Rd(s2, c.buf, 1)))}} : TRUE
        : s2 \in {Wr(s1, c.buf, 0, Coef(SCALE_D65_TO_D50(0), Rd(s1, c.buf, 0)))}} : TRUE
        : s1 \in {multiplyMatrixVector(c.st, M_BRADFORD, input, c.buf)}} : TRUE
        : c \in {createMatrix(st)}} : TRUE

xyz50ToXyz65(st, input, output) ==
    CHOOSE it \in {CHOOSE it \in {CHOOSE it \in {CHOOSE it \in {CHOOSE it \in {CHOOSE it \in {
        dropMatrix(s5, c.buf)
        : s5 \in {multiplyMatrixVector(s4, M_BRADFORD_INV, c.buf, output)}} : TRUE
        : s4 \in {Wr(s3, c.buf, 2, Coef(SCALE_D50_TO_D65(2), Rd(s3, c.buf, 2)))}} : TRUE
        : s3 \in {Wr(s2, c.buf, 1, Coef(SCALE_D50_TO_D65(1), Rd(s2, c.buf, 1)))}} : TRUE
        : s2 \in {Wr(s1, c.buf, 0, Coef(SCALE_D50_TO_D65(0), Rd(s1, c.buf, 0)))}} : TRUE
        : s1 \in {multiplyMatrixVector(c.st, M_BRADFORD, input, c.buf)}} : TRUE
        : c \in {createMatrix(st)}} : TRUE

xyz65ToLrgb(st, input, output) == multiplyMatrixVector(st, M_SRGB_INV, input, output)

lrgbToXyz65(st, input, output) == multiplyMatrixVector(st, M_SRGB, input, output)

xyz65ToOklab(st, input, output) ==
    LET x == Rd(st, input, 0)
        y == Rd(st, input, 1)
        z == Rd(st, input, 2)
    IN  CHOOSE it \in {CHOOSE it \in {CHOOSE it \in {
            Wr(Wr(Wr(st, output, 0, Coef(2105, l) + Coef(7936, mm) - Coef(41, s)),
                   output, 1, Coef(19780, l) - Coef(24286, mm) + Coef(4506, s)),
                output, 2, Coef(259, l) + Coef(7828, mm) - Coef(8087, s))
            : s \in {Cbrt(Coef(482, x) + Coef(2644, y) + Coef(6339, z))}} : TRUE
            : mm \in {Cbrt(Coef(330, x) + Coef(9293, y) + Coef(361, z))}} : TRUE
            : l \in {Cbrt(Coef(8189, x) + Coef(3619, y) - Coef(1289, z))}} : TRUE

Cube(x) == Mul(Mul(x, x), x)

oklabToXyz65(st, input, output) ==
    LET L == Rd(st, input, 0)
        a == Rd(st, input, 1)
        b == Rd(st, input, 2)
        l3 == Cube(L + Coef(3963, a) + Coef(2158, b))
        m3 == Cube(L - Coef(1056, a) - Coef(639, b))
        s3 == Cube(L - Coef(895, a) - Coef(12915, b))
        s1 == Wr(st, output, 0, Coef(12270, l3) - Coef(5578, m3) + Coef(2813, s3))
        s2 == Wr(s1, output, 1, Coef(11123, m3) - Coef(406, l3) - Coef(717, s3))
    IN  Wr(s2, output, 2, Coef(15862, s3) - Coef(764, l3) - Coef(4215, m3))

----------------------------------------------------------------------------
(* adapters/d50.ts *)

\* t > EPSILON ? cbrt(t) : (KAPPA * t + 16) / 116
LabF(t) ==
    IF t * 1000000 > 8856 * Scale THEN Cbrt(t)
    ELSE RoundDiv(RoundDiv(9033 * t, 10) + 16 * Scale, 116)

\* f3 > EPSILON ? f3 : (116 * f - 16) / KAPPA
LabFInv(f) ==
    IF Cube(f) * 1000000 > 8856 * Scale THEN Cube(f)
    ELSE RoundDiv((116 * f - 16 * Scale) * 10, 9033)

xyz50ToLab(st, input, output) ==
    LET xr == RoundDiv(Rd(st, input, 0) * 100000, 96422)
        yr == Rd(st, input, 1)
        zr == RoundDiv(Rd(st, input, 2) * 100000, 82521)
    IN  CHOOSE it \in {CHOOSE it \in {CHOOSE it \in {
            Wr(Wr(Wr(st, output, 0, 116 * fy - 16 * Scale),
                   output, 1, 500 * (fx - fy)),
                output, 2, 200 * (fy - fz))
            : fz \in {LabF(zr)}} : TRUE
            : fy \in {LabF(yr)}} : TRUE
            : fx \in {LabF(xr)}} : TRUE

labToXyz50(st, input, output) ==
    LET l == Rd(st, input, 0)
        a == Rd(st, input, 1)
        b == Rd(st, input, 2)
        fy == RoundDiv(l + 16 * Scale, 116)
        fx == RoundDiv(a, 500) + fy
        fz == fy - RoundDiv(b, 200)
        s1 == Wr(st, output, 0, RoundDiv(LabFInv(fx) * 96422, 100000))
        s2 == Wr(s1, output, 1, IF l > 8 * Scale THEN Cube(fy) ELSE RoundDiv(l * 10, 9033))
    IN  Wr(s2, output, 2, RoundDiv(LabFInv(fz) * 82521, 100000))

----------------------------------------------------------------------------
(* convert.ts: the routing tables.  An adapter is named by its function. *)

Spaces ==
    {"rgb", "hsl", "hsv", "hwb", "lab", "lch", "lrgb", "oklab", "oklch", "xyz50", "xyz65"}

NATIVE_HUB ==
    [rgb |-> "xyz65", hsl |-> "xyz65", hsv |-> "xyz65", hwb |-> "xyz65",
     lab |-> "xyz50", lch |-> "xyz50", lrgb |-> "xyz65",
     oklab |-> "xyz65", oklch |-> "xyz65"]

TO_HUB ==
    [rgb   |-> <<"rgbToLrgb", "lrgbToXyz65">>,
     hsl   |-> <<"hslToHsv", "hsvToRgb", "rgbToLrgb", "lrgbToXyz65">>,
     hsv   |-> <<"hsvToRgb", "rgbToLrgb", "lrgbToXyz65">>,
     hwb   |-> <<"hwbToHsv", "hsvToRgb", "rgbToLrgb", "lrgbToXyz65">>,
     lab   |-> <<"labToXyz50">>,
     lch   |-> <<"lchToLab", "labToXyz50">>,
     lrgb  |-> <<"lrgbToXyz65">>,
     oklab |-> <<"oklabToXyz65">>,
     oklch |-> <<"oklchToOklab", "oklabToXyz65">>]

\* FROM_HUB with the hwb row copied from the hsl row and left unedited
FromHubCopiedRow ==
    [rgb   |-> <<"xyz65ToLrgb", "lrgbToRgb">>,
     hsl   |-> <<"xyz65ToLrgb", "lrgbToRgb", "rgbToHsv", "hsvToHsl">>,
     hsv   |-> <<"xyz65ToLrgb", "lrgbToRgb", "rgbToHsv">>,
     hwb   |-> <<"xyz65ToLrgb", "lrgbToRgb", "rgbToHsv", "hsvToHsl">>,
     lab   |-> <<"xyz50ToLab">>,
     lch   |-> <<"xyz50ToLab", "labToLch">>,
     lrgb  |-> <<"xyz65ToLrgb">>,
     oklab |-> <<"xyz65ToOklab">>,
     oklch |-> <<"xyz65ToOklab", "oklabToOklch">>]

FROM_HUB ==
    [rgb   |-> <<"xyz65ToLrgb", "lrgbToRgb">>,
     hsl   |-> <<"xyz65ToLrgb", "lrgbToRgb", "rgbToHsv", "hsvToHsl">>,
     hsv   |-> <<"xyz65ToLrgb", "lrgbToRgb", "rgbToHsv">>,
     hwb   |-> <<"xyz65ToLrgb", "lrgbToRgb", "rgbToHsv", "hsvToHwb">>,
     lab   |-> <<"xyz50ToLab">>,
     lch   |-> <<"xyz50ToLab", "labToLch">>,
     lrgb  |-> <<"xyz65ToLrgb">>,
     oklab |-> <<"xyz65ToOklab">>,
     oklch |-> <<"xyz65ToOklab", "oklabToOklch">>]

\* DIRECT_HUB without its row lrgb -> rgb
DIRECT_HUB_OneWay ==
    [rgb   |-> [hsl |-> <<"rgbToHsv", "hsvToHsl">>, hsv |-> <<"rgbToHsv">>,
                hwb |-> <<"rgbToHsv", "hsvToHwb">>, lrgb |-> <<"rgbToLrgb">>],
     hsl   |-> [rgb |-> <<"hslToHsv", "hsvToRgb">>, hsv |-> <<"hslToHsv">>],
     hsv   |-> [rgb |-> <<"hsvToRgb">>, hsl |-> <<"hsvToHsl">>, hwb |-> <<"hsvToHwb">>],
     hwb   |-> [rgb |-> <<"hwbToHsv", "hsvToRgb">>, hsv |-> <<"hwbToHsv">>],
     lab   |-> [lch |-> <<"labToLch">>],
     lch   |-> [lab |-> <<"lchToLab">>],
     oklab |-> [oklch |-> <<"oklabToOklch">>],
     oklch |-> [oklab |-> <<"oklchToOklab">>]]

DIRECT_HUB ==
    [rgb   |-> [hsl |-> <<"rgbToHsv", "hsvToHsl">>, hsv |-> <<"rgbToHsv">>,
                hwb |-> <<"rgbToHsv", "hsvToHwb">>, lrgb |-> <<"rgbToLrgb">>],
     hsl   |-> [rgb |-> <<"hslToHsv", "hsvToRgb">>, hsv |-> <<"hslToHsv">>],
     hsv   |-> [rgb |-> <<"hsvToRgb">>, hsl |-> <<"hsvToHsl">>, hwb |-> <<"hsvToHwb">>],
     hwb   |-> [rgb |-> <<"hwbToHsv", "hsvToRgb">>, hsv |-> <<"hwbToHsv">>],
     lab   |-> [lch |-> <<"labToLch">>],
     lch   |-> [lab |-> <<"lchToLab">>],
     lrgb  |-> [rgb |-> <<"lrgbToRgb">>],
     oklab |-> [oklch |-> <<"oklabToOklch">>],
     oklch |-> [oklab |-> <<"oklchToOklab">>]]

\* every adapter function of adapters/*.ts, with the spaces its name declares:
\* <<source space, target space>>
AdapterType ==
    [rgbToHsv |-> <<"rgb", "hsv">>, hsvToRgb |-> <<"hsv", "rgb">>,
     hsvToHsl |-> <<"hsv", "hsl">>, hslToHsv |-> <<"hsl", "hsv">>,
     hsvToHwb |-> <<"hsv", "hwb">>, hwbToHsv |-> <<"hwb", "hsv">>,
     rgbToLrgb |-> <<"rgb", "lrgb">>, lrgbToRgb |-> <<"lrgb", "rgb">>,
     labToLch |-> <<"lab", "lch">>, lchToLab |-> <<"lch", "lab">>,
     oklabToOklch |-> <<"oklab", "oklch">>, oklchToOklab |-> <<"oklch", "oklab">>,
     xyz65ToLrgb |-> <<"xyz65", "lrgb">>, lrgbToXyz65 |-> <<"lrgb", "xyz65">>,
     xyz65ToOklab |-> <<"xyz65", "oklab">>, oklabToXyz65 |-> <<"oklab", "xyz65">>,
     xyz50ToLab |-> <<"xyz50", "lab">>, labToXyz50 |-> <<"lab", "xyz50">>,
     xyz65ToXyz50 |-> <<"xyz65", "xyz50">>, xyz50ToXyz65 |-> <<"xyz50", "xyz65">>]

Adapters == DOMAIN AdapterType

\* the call adapter(input, output) of the adapter function called `name`
CallAdapter(st, name, input, output) ==
    CASE name = "rgbToHsv" -> rgbToHsv(st, input, output)
      [] name = "hsvToRgb" -> hsvToRgb(st, input, output)
      [] name = "hsvToHsl" -> hsvToHsl(st, input, output)
      [] name = "hslToHsv" -> hslToHsv(st, input, output)
      [] name = "hsvToHwb" -> hsvToHwb(st, input, output)
      [] name = "hwbToHsv" -> hwbToHsv(st, input, output)
      [] name = "rgbToLrgb" -> rgbToLrgb(st, input, output)
      [] name = "lrgbToRgb" -> lrgbToRgb(st, input, output)
      [] name = "labToLch" -> labToLch(st, input, output)
      [] name = "lchToLab" -> lchToLab(st, input, output)
      [] name = "oklabToOklch" -> oklabToOklch(st, input, output)
      [] name = "oklchToOklab" -> oklchToOklab(st, input, output)
      [] name = "xyz65ToLrgb" -> xyz65ToLrgb(st, input, output)
      [] name = "lrgbToXyz65" -> lrgbToXyz65(st, input, output)
      [] name = "xyz65ToOklab" -> xyz65ToOklab(st, input, output)
      [] name = "oklabToXyz65" -> oklabToXyz65(st, input, output)
      [] name = "xyz50ToLab" -> xyz50ToLab(st, input, output)
      [] name = "labToXyz50" -> labToXyz50(st, input, output)
      [] name = "xyz65ToXyz50" -> xyz65ToXyz50(st, input, output)
      [] name = "xyz50ToXyz65" -> xyz50ToXyz65(st, input, output)

\* the log with the call name(input, output) recorded
Logged(st, name, input, output) ==
    [st EXCEPT !.log = Append(@, Event("adapter", name, input, output))]

\* chain[i](input, output), logged
Step(st, name, input, output) ==
    CHOOSE it \in {
        CallAdapter(s, name, input, output)
        : s \in {Logged(st, name, input, output)}} : TRUE

\* a call chain[i](input, output) that applyAdapter is to make
Call(name, input, output) == [name |-> name, src |-> input, dst |-> output]

RECURSIVE MiddleStepsThroughLast(_, _, _)
\* the middle loop running to i < len instead of i < len - 1
MiddleStepsThroughLast(chain, i, scratch) ==
    IF i < Len(chain)
    THEN <<Call(chain[i + 1], scratch, scratch)>>
             \o MiddleStepsThroughLast(chain, i + 1, scratch)
    ELSE <<>>

RECURSIVE MiddleSteps(_, _, _)
\* for (let i = 1; i < len - 1; i++) chain[i](scratch, scratch): the calls
\* the loop makes from i on, i counted from 0
MiddleSteps(chain, i, scratch) ==
    IF i < Len(chain) - 1
    THEN <<Call(chain[i + 1], scratch, scratch)>>
             \o MiddleSteps(chain, i + 1, scratch)
    ELSE <<>>

\* the calls applyAdapter makes for a chain of one or more adapters, in order:
\* one call from input to output, or first step, middle steps and last step
ChainCalls(chain, input, scratch, output) ==
    IF Len(chain) = 1
    THEN <<Call(chain[1], input, output)>>
    ELSE <<Call(chain[1], input, scratch)>>
             \o MiddleSteps(chain, 1, scratch)
             \o <<Call(chain[Len(chain)], scratch, output)>>

RECURSIVE Steps(_, _)
\* the machine after the calls have been made one after the other
Steps(st, calls) ==
    IF Len(calls) = 0
    THEN st
    ELSE CHOOSE it \in {
             Step(before, calls[Len(calls)].name, calls[Len(calls)].src,
                  calls[Len(calls)].dst)
             : before \in {Steps(st, SubSeq(calls, 1, Len(calls) - 1))}} : TRUE

\* if (input !== output) output.set(input)
CopyUnlessSame(st, input, output) ==
    IF input # output THEN SetFrom(st, input, output) ELSE st

\* applyAdapter without its closing dropMatrix(scratch)
applyAdapterNoRelease(st, chain, input, output) ==
    IF Len(chain) = 0
    THEN CopyUnlessSame(st, input, output)
    ELSE CHOOSE it \in {
             Steps(c.st, ChainCalls(chain, input, c.buf, output))
             : c \in {IF Len(chain) = 1
                      THEN [st |-> st, buf |-> 0]
                      ELSE createMatrix(st)}} : TRUE

\* a chain of two or more adapters acquires a scratch buffer before its first
\* step and releases it after its last
applyAdapter(st, chain, input, output) ==
    IF Len(chain) = 0
    THEN CopyUnlessSame(st, input, output)
    ELSE CHOOSE it \in {CHOOSE it \in {
             IF Len(chain) = 1 THEN s1 ELSE dropMatrix(s1, c.buf)
             : s1 \in {Steps(c.st, ChainCalls(chain, input, c.buf, output))}} : TRUE
             : c \in {IF Len(chain) = 1
                      THEN [st |-> st, buf |-> 0]
                      ELSE createMatrix(st)}} : TRUE

\* DIRECT_HUB[from]?.[to] is defined
HasDirect(from, to) ==
    from \in DOMAIN DIRECT_HUB /\ to \in DOMAIN DIRECT_HUB[from]

\* HubOf without the NATIVE_HUB lookup: every space taken for its own hub
HubOfSelf(space) == space

\* NATIVE_HUB[space] ?? space
HubOf(space) == IF space \in DOMAIN NATIVE_HUB THEN NATIVE_HUB[space] ELSE space

\* the Bradford bridge convertColor applies to output in place, if any
Bridge(st, sourceHub, targetHub, output) ==
    IF sourceHub # targetHub
    THEN (IF sourceHub = "xyz65"
          THEN CHOOSE it \in {
                   xyz65ToXyz50(s, output, output)
                   : s \in {Logged(st, "xyz65ToXyz50", output, output)}} : TRUE
          ELSE CHOOSE it \in {
                   xyz50ToXyz65(s, output, output)
                   : s \in {Logged(st, "xyz50ToXyz65", output, output)}} : TRUE)
    ELSE st

convertColor(st, input, output, from, to) ==
    IF from = to
    THEN CopyUnlessSame(st, input, output)
    ELSE IF HasDirect(from, to)
    THEN applyAdapter(st, DIRECT_HUB[from][to], input, output)
    ELSE CHOOSE it \in {CHOOSE it \in {
             IF to \in DOMAIN FROM_HUB
                 THEN applyAdapter(s2, FROM_HUB[to], output, output)
                 ELSE s2
             : s2 \in {Bridge(s1, HubOf(from), HubOf(to), output)}} : TRUE
             : s1 \in {IF from \in DOMAIN TO_HUB
                       THEN applyAdapter(st, TO_HUB[from], input, output)
                       ELSE CopyUnlessSame(st, input, output)}} : TRUE

\* the adapter names a log records, in call order
RECURSIVE AdapterTrace(_)
AdapterTrace(log) ==
    IF log = <<>> THEN <<>>
    ELSE IF Head(log).ev = "adapter"
    THEN <<Head(log).name>> \o AdapterTrace(Tail(log))
    ELSE AdapterTrace(Tail(log))

----------------------------------------------------------------------------
(* shared.ts: colours.  A Color is a record [space, value, alpha], value a  *)
(* buffer reference.  A function that returns a colour returns             *)
(* [st |-> the next machine state, color |-> the colour].                  *)

createColor(st, space, values, alpha) ==
    CHOOSE it \in {
        [st    |-> [c.st EXCEPT !.heap[c.buf] = values],
            color |-> [space |-> space, value |-> c.buf, alpha |-> alpha]]
        : c \in {createMatrix(st)}} : TRUE

dropColor(st, color) == dropMatrix(st, color.value)

cloneColor(st, color) ==
    CHOOSE it \in {
        [st    |-> SetFrom(c.st, color.value, c.buf),
            color |-> [space |-> color.space, value |-> c.buf, alpha |-> color.alpha]]
        : c \in {createMatrix(st)}} : TRUE

\* mutateColor converting into a newly acquired buffer
mutateColorIntoNewBuffer(st, color, to) ==
    IF color.space = to
    THEN [st |-> st, color |-> color]
    ELSE CHOOSE it \in {
             [st    |-> convertColor(c.st, color.value, c.buf, color.space, to),
                 color |-> [space |-> to, value |-> c.buf, alpha |-> color.alpha]]
             : c \in {createMatrix(st)}} : TRUE

mutateColor(st, color, to) ==
    IF color.space = to
    THEN [st |-> st, color |-> color]
    ELSE [st    |-> convertColor(st, color.value, color.value, color.space, to),
          color |-> [color EXCEPT !.space = to]]

\* deriveColor handing back the colour itself when no conversion is needed
deriveColorNoClone(st, color, to) ==
    IF color.space = to
    THEN [st |-> st, color |-> color]
    ELSE CHOOSE it \in {
             [st    |-> convertColor(c.st, color.value, c.buf, color.space, to),
                 color |-> [space |-> to, value |-> c.buf, alpha |-> color.alpha]]
             : c \in {createMatrix(st)}} : TRUE

deriveColor(st, color, to) ==
    IF color.space = to
    THEN cloneColor(st, color)
    ELSE CHOOSE it \in {
             [st    |-> convertColor(c.st, color.value, c.buf, color.space, to),
                 color |-> [space |-> to, value |-> c.buf, alpha |-> color.alpha]]
             : c \in {createMatrix(st)}} : TRUE

\* the largest reference in use, 0 when there is none
TopRef(h) ==
    IF DOMAIN h = {} THEN 0 ELSE CHOOSE m \in DOMAIN h : \A k \in DOMAIN h : k <= m

\* preallocatePool pushing one new buffer count times
preallocatePoolOneBuffer(st, size) ==
    CHOOSE it \in {CHOOSE it \in {
        IF count <= 0 THEN st
            ELSE [st EXCEPT !.heap = @ @@ ((base + 1) :> <<0, 0, 0>>),
                            !.pool = @ \o [i \in 1..count |-> base + 1]]
        : base \in {TopRef(st.heap)}} : TRUE
        : count \in {Min2(size, MAX_POOL_SIZE - Len(st.pool))}} : TRUE

\* preallocatePool: count = Math.min(size, MAX_POOL_SIZE - pool.length) new
\* buffers are pushed, none when count <= 0
preallocatePool(st, size) ==
    CHOOSE it \in {CHOOSE it \in {
        IF count <= 0 THEN st
            ELSE [st EXCEPT !.heap = @ @@ [r \in (base + 1)..(base + count) |-> <<0, 0, 0>>],
                            !.pool = @ \o [i \in 1..count |-> base + i]]
        : base \in {TopRef(st.heap)}} : TRUE
        : count \in {Min2(size, MAX_POOL_SIZE - Len(st.pool))}} : TRUE

\* clearPool: pool.length = 0
clearPool(st) == [st EXCEPT !.pool = <<>>]

----------------------------------------------------------------------------
(* utils/contrast.ts.  A function that returns a number returns            *)
(* [st |-> the next machine state, y |-> the number].                      *)

\* getLuminanceD65 reads color.space and color.value only
getLuminanceD65(st, color) ==
    CHOOSE it \in {CHOOSE it \in {
        [st |-> dropMatrix(s1, xyz.buf), y |-> Rd(s1, xyz.buf, 1)]
        : s1 \in {convertColor(xyz.st, color.value, xyz.buf, color.space, "xyz65")}} : TRUE
        : xyz \in {createMatrix(st)}} : TRUE

\* y > DARK_THRESH ? y : y + (DARK_THRESH - y) ** DARK_CLAMP
getSapcV(y) ==
    IF y * 1000 > 22 * Scale
    THEN y
    ELSE y + Pow(RoundDiv(22 * Scale, 1000) - y, 1414, 1000)

calculateLc(v_t, v_b) ==
    IF v_b > v_t
    THEN RoundDiv(114 * (Pow(v_b, 56, 100) - Pow(v_t, 57, 100)), 100)
    ELSE RoundDiv(114 * (Pow(v_b, 65, 100) - Pow(v_t, 62, 100)), 100)

\* the contrast is a percentage held at Scale, rounded to two decimals
checkContrast(st, text, background) ==
    CHOOSE it \in {CHOOSE it \in {CHOOSE it \in {CHOOSE it \in {CHOOSE it \in {CHOOSE it \in {
        [st |-> b.st, y |-> RoundDiv(RoundDiv(res * 100, Scale) * Scale, 100)]
        : res \in {IF Abs(Lc) * 1000 < Scale THEN 0 ELSE Lc * 100}} : TRUE
        : Lc \in {calculateLc(vt, vb)}} : TRUE
        : vb \in {getSapcV(b.y)}} : TRUE
        : vt \in {getSapcV(t.y)}} : TRUE
        : b \in {getLuminanceD65(t.st, background)}} : TRUE
        : t \in {getLuminanceD65(st, text)}} : TRUE

\* one iteration of the loop of matchContrast.  r holds the machine state and
\* the locals low, high and bestL, with testMat, vb, isDarkBg and
\* targetContrast, which the loop does not change.
BisectStep(r) ==
    CHOOSE it \in {CHOOSE it \in {CHOOSE it \in {CHOOSE it \in {
        IF Abs(Lc * 100) < r.targetContrast
            THEN (IF r.isDarkBg
                  THEN [r EXCEPT !.st = t.st, !.low = mid]
                  ELSE [r EXCEPT !.st = t.st, !.high = mid])
            ELSE (IF r.isDarkBg
                  THEN [r EXCEPT !.st = t.st, !.bestL = mid, !.high = mid]
                  ELSE [r EXCEPT !.st = t.st, !.bestL = mid, !.low = mid])
        : Lc \in {calculateLc(vt, r.vb)}} : TRUE
        : vt \in {getSapcV(t.y)}} : TRUE
        : t \in {getLuminanceD65(Wr(r.st, r.testMat, 0, mid),
                 [space |-> "oklch", value |-> r.testMat])}} : TRUE
        : mid \in {RoundDiv(r.low + r.high, 2)}} : TRUE

RECURSIVE Bisect(_, _)
\* for (let i = 0; i < 12; i++): the locals after n iterations
Bisect(r, n) ==
    IF n = 0 THEN r ELSE CHOOSE it \in {
                             BisectStep(before)
                             : before \in {Bisect(r, n - 1)}} : TRUE

matchContrast(st, color, background, targetContrast) ==
    CHOOSE it \in {CHOOSE it \in {CHOOSE it \in {CHOOSE it \in {CHOOSE it \in {CHOOSE it \in {CHOOSE it \in {CHOOSE it \in {CHOOSE it \in {CHOOSE it \in {CHOOSE it \in {
        [st    |-> dropMatrix(s5, testMat.buf),
            color |-> [space |-> color.space, value |-> resValue.buf,
                       alpha |-> color.alpha]]
        : s5 \in {dropMatrix(s4, oklchMat.buf)}} : TRUE
        : s4 \in {convertColor(s3, testMat.buf, resValue.buf, "oklch", color.space)}} : TRUE
        : s3 \in {Wr(resValue.st, testMat.buf, 0, r.bestL)}} : TRUE
        : resValue \in {createMatrix(r.st)}} : TRUE
        : r \in {Bisect(locals, 12)}} : TRUE
        : locals \in {[st |-> s2,
                      low |-> IF 2 * b.y < Scale THEN Rd(s1, oklchMat.buf, 0) ELSE 0,
                      high |-> IF 2 * b.y < Scale THEN Scale ELSE Rd(s1, oklchMat.buf, 0),
                      bestL |-> Rd(s1, oklchMat.buf, 0),
                      testMat |-> testMat.buf,
                      vb |-> getSapcV(b.y),
                      isDarkBg |-> 2 * b.y < Scale,
                      targetContrast |-> targetContrast]}} : TRUE
        : s2 \in {Wr(Wr(testMat.st, testMat.buf, 1, Rd(s1, oklchMat.buf, 1)),
                  testMat.buf, 2, Rd(s1, oklchMat.buf, 2))}} : TRUE
        : testMat \in {createMatrix(s1)}} : TRUE
        : s1 \in {convertColor(oklchMat.st, color.value, oklchMat.buf, color.space, "oklch")}} : TRUE
        : oklchMat \in {createMatrix(b.st)}} : TRUE
        : b \in {getLuminanceD65(st, background)}} : TRUE

----------------------------------------------------------------------------
(* utils/palette.ts.  A function that returns an array of colours returns  *)
(* [st |-> the next machine state, colors |-> the array].                  *)

\* NaN, the number that is no number: what 0 * Infinity gives, and
\* parseFloat for a missing or malformed token.  A slot holds it as a value
\* no channel takes.
NaN == -2147483647

\* one channel of mixColor.  The arithmetic is done on doubles and the
\* result is rounded once, when it is stored into the Float32Array: here
\* the sum is kept in 1 / Scale^2 and rounded to the grid at the end.
MixChannel(startVal, endVal, w, isHue) ==
    IF w = NaN THEN NaN
    ELSE IF isHue
    THEN CHOOSE it \in {CHOOSE it \in {
             RoundDiv(IF h < 0 THEN h + 360 * Scale * Scale ELSE h, Scale)
             : h \in {JsMod(startVal * Scale + (e - startVal) * w,
                            360 * Scale * Scale)}} : TRUE
             : e \in {IF endVal - startVal > 180 * Scale THEN endVal - 360 * Scale
                      ELSE IF endVal - startVal < -(180 * Scale) THEN endVal + 360 * Scale
                      ELSE endVal}} : TRUE
    ELSE RoundDiv(startVal * Scale + (endVal - startVal) * w, Scale)

mixColor(st, start, end, t) ==
    CHOOSE it \in {CHOOSE it \in {CHOOSE it \in {
        [st    |-> [res.st EXCEPT !.heap[res.buf] =
                          [c \in 1..3 |-> MixChannel(st.heap[start.value][c],
                                                     st.heap[end.value][c],
                                                     w, c - 1 = hIdx)]],
            color |-> [space |-> start.space, value |-> res.buf,
                       alpha |-> MixChannel(start.alpha, end.alpha, w, FALSE)]]
        : res \in {createMatrix(st)}} : TRUE
        : hIdx \in {IF start.space \in {"hsl", "hwb"} THEN 0
                    ELSE IF start.space \in {"lch", "oklch"} THEN 2
                    ELSE -1}} : TRUE
        : w \in {IF t = NaN THEN NaN
                 ELSE IF t < 0 THEN 0 ELSE IF t > Scale THEN Scale ELSE t}} : TRUE

RECURSIVE CopyStops(_, _, _)
\* stops.map(copy) from index i on
CopyStops(st, stops, i) ==
    IF i > Len(stops) THEN [st |-> st, colors |-> <<>>]
    ELSE CHOOSE it \in {CHOOSE it \in {CHOOSE it \in {
             [st     |-> rest.st,
                 colors |-> <<[space |-> stops[i].space, value |-> val.buf,
                               alpha |-> stops[i].alpha]>> \o rest.colors]
             : rest \in {CopyStops(s1, stops, i + 1)}} : TRUE
             : s1 \in {SetFrom(val.st, stops[i].value, val.buf)}} : TRUE
             : val \in {createMatrix(st)}} : TRUE

RECURSIVE ScaleSteps(_, _, _, _)
\* the loop of createScales from step i on.  With steps = 1 stepInterval is
\* 1 / 0, Infinity, and segmentRaw is 0 * Infinity, NaN; NaN | 0 is 0.
ScaleSteps(st, stops, steps, i) ==
    IF i >= steps THEN [st |-> st, colors |-> <<>>]
    ELSE CHOOSE it \in {CHOOSE it \in {CHOOSE it \in {CHOOSE it \in {
             [st |-> rest.st, colors |-> <<m.color>> \o rest.colors]
             : rest \in {ScaleSteps(m.st, stops, steps, i + 1)}} : TRUE
             : m \in {mixColor(st, stops[idx + 1], stops[idx + 2],
                               IF segmentRaw = NaN THEN NaN
                               ELSE segmentRaw - idx * Scale)}} : TRUE
             : idx \in {IF segmentRaw = NaN THEN 0
                        ELSE Min2(segmentRaw \div Scale, Len(stops) - 2)}} : TRUE
             : segmentRaw \in {IF steps = 1 THEN NaN
                               ELSE RoundDiv(i * (Len(stops) - 1) * Scale, steps - 1)}} : TRUE

createScales(st, stops, steps) ==
    IF steps <= 0 THEN [st |-> st, colors |-> <<>>]
    ELSE IF Len(stops) < 2 THEN CopyStops(st, stops, 1)
    ELSE ScaleSteps(st, stops, steps, 0)

RECURSIVE MatchEach(_, _, _, _, _)
\* scale.map((s) => matchContrast(s, background, targetContrast)) from index i on
MatchEach(st, scale, i, background, targetContrast) ==
    IF i > Len(scale) THEN [st |-> st, colors |-> <<>>]
    ELSE CHOOSE it \in {CHOOSE it \in {
             [st |-> rest.st, colors |-> <<m.color>> \o rest.colors]
             : rest \in {MatchEach(m.st, scale, i + 1, background, targetContrast)}} : TRUE
             : m \in {matchContrast(st, scale[i], background, targetContrast)}} : TRUE

\* contrast.ts: matchScales
matchScales(st, stops, background, targetContrast, steps) ==
    CHOOSE it \in {
        MatchEach(scale.st, scale.colors, 1, background, targetContrast)
        : scale \in {createScales(st, stops, steps)}} : TRUE

----------------------------------------------------------------------------
(* The library once imported.  adapters/cat.ts acquires lmsD65 and lmsD50, *)
(* fills them with M_BRADFORD times the reference whites and releases      *)
(* them, so the free-list starts with these two buffers.                   *)

LmsSlots(white) == [i \in 1..3 |-> RoundDiv(Lms(white, i - 1) * Scale, CoefScale)]

Imported ==
    CHOOSE it \in {CHOOSE it \in {CHOOSE it \in {CHOOSE it \in {CHOOSE it \in {
        dropMatrix(s3, lmsD50.buf)
        : s3 \in {dropMatrix(s2, lmsD65.buf)}} : TRUE
        : s2 \in {[s1 EXCEPT !.heap[lmsD50.buf] = LmsSlots(WHITE_D50)]}} : TRUE
        : s1 \in {[lmsD50.st EXCEPT !.heap[lmsD65.buf] = LmsSlots(WHITE_D65)]}} : TRUE
        : lmsD50 \in {createMatrix(lmsD65.st)}} : TRUE
        : lmsD65 \in {createMatrix([heap |-> <<>>, pool |-> <<>>, log |-> <<>>])}} : TRUE

----------------------------------------------------------------------------
(* The caller: the program that uses the library.  It holds raw matrices   *)
(* (held) and colours (colors), and makes one library call per step.  last *)
(* records the call just made: its name, its arguments, the buffer it was  *)
(* given or returned (buf), the caller's view before it (pre), the call    *)
(* before it (prev) and the events it produced (log).                      *)

\* the caller holds at most MaxHeld raw matrices and MaxColors colours
MaxHeld == 1

MaxColors == 2

Range(f) == {f[i] : i \in DOMAIN f}

RemoveAt(seq, i) == SubSeq(seq, 1, i - 1) \o SubSeq(seq, i + 1, Len(seq))

\* a typical colour of each space
Sample(space) ==
    CASE space = "rgb" -> <<(8 * Scale) \div 10, (4 * Scale) \div 10, (2 * Scale) \div 10>>
      [] space = "hsl" -> <<30 * Scale, (6 * Scale) \div 10, Scale \div 2>>
      [] space = "hsv" -> <<200 * Scale, Scale \div 2, (8 * Scale) \div 10>>
      [] space = "hwb" -> <<300 * Scale, (2 * Scale) \div 10, (3 * Scale) \div 10>>
      [] space = "lab" -> <<50 * Scale, 20 * Scale, -30 * Scale>>
      [] space = "lch" -> <<60 * Scale, 40 * Scale, 120 * Scale>>
      [] space = "lrgb" -> <<Scale \div 2, Scale \div 4, Scale \div 10>>
      [] space = "oklab" -> <<(6 * Scale) \div 10, Scale \div 10, -(Scale \div 20)>>
      [] space = "oklch" -> <<(7 * Scale) \div 10, Scale \div 10, 250 * Scale>>
      [] space = "xyz50" -> <<(4 * Scale) \div 10, Scale \div 2, (3 * Scale) \div 10>>
      [] space = "xyz65" -> <<(3 * Scale) \div 10, (4 * Scale) \div 10, Scale \div 2>>

\* a grey of each space
Grey(space) ==
    CASE space \in {"rgb", "lrgb"} -> <<Scale \div 2, Scale \div 2, Scale \div 2>>
      [] space \in {"hsl", "hsv"} -> <<0, 0, Scale \div 2>>
      [] space = "hwb" -> <<0, Scale \div 2, Scale \div 2>>
      [] space \in {"lab", "lch"} -> <<50 * Scale, 0, 0>>
      [] space \in {"oklab", "oklch"} -> <<Scale \div 2, 0, 0>>
      [] space = "xyz50" -> <<(48 * Scale) \div 100, Scale \div 2, (41 * Scale) \div 100>>
      [] space = "xyz65" -> <<(48 * Scale) \div 100, Scale \div 2, (54 * Scale) \div 100>>

Samples(space) == {Sample(space), Grey(space)}

\* the machine state the variables hold, with an empty event log
Machine == [heap |-> heap, pool |-> pool, log |-> <<>>]

\* the buffers something still refers to
Live(p, hd, cs) == Range(p) \cup hd \cup {cs[i].value : i \in DOMAIN cs}

\* the end of a call: the variables take the machine state st, the caller
\* holds hd and cs, buffers nothing refers to any more are collected
ReturnWith(st, hd, cs, op, args, buf, pk) ==
    /\ picker' = pk
    /\ pool' = st.pool
    /\ heap' = [r \in Live(st.pool, hd, cs) |-> st.heap[r]]
    /\ held' = hd
    /\ colors' = cs
    /\ last' = [op    |-> op,
                calls |-> last.calls + 1,
                args  |-> args,
                buf   |-> buf,
                pre   |-> [pool |-> pool, heap |-> heap, colors |-> colors, held |-> held],
                prev  |-> [op |-> last.op, buf |-> last.buf, len |-> Len(last.pre.pool)],
                log   |-> st.log]

\* the end of a call that leaves the picker alone
Return(st, hd, cs, op, args, buf) == ReturnWith(st, hd, cs, op, args, buf, picker)

NoArgs == [n |-> 0]

\* before createPicker no picker is there
\* before createPicker no picker is there.  val, space and subs are what
\* createPicker closes over, subs in the order of insertion.  The caller
\* keeps the rest: unsubs, the callbacks it holds an unsubscribe function
\* for; cancelled, those whose unsubscribe function it has called; dropped,
\* those of cancelled it has not subscribed again since.
NoPicker ==
    [made |-> FALSE, val |-> [h |-> 0, s |-> 0, v |-> 0, a |-> 0],
     space |-> "none", subs |-> <<>>,
     unsubs |-> {}, cancelled |-> {}, dropped |-> {}]

Init ==
    /\ pool = Imported.pool
    /\ heap = Imported.heap
    /\ held = {}
    /\ colors = <<>>
    /\ picker = NoPicker
    /\ last = [op    |-> "import",
               calls |-> 0,
               args  |-> NoArgs,
               buf   |-> 0,
               pre   |-> [pool |-> <<>>, heap |-> <<>>, colors |-> <<>>, held |-> {}],
               prev  |-> [op |-> "none", buf |-> 0, len |-> 0],
               log   |-> Imported.log]

----------------------------------------------------------------------------
(* SpecPool: the caller exercises the buffer pool *)

\* calls per run
PoolCalls == 4

\* the sizes preallocatePool is called with
PreallocSizes == {0, 1, MAX_POOL_SIZE, MAX_POOL_SIZE + 44}

CreateMatrix ==
    /\ last.calls < PoolCalls
    /\ Cardinality(held) < MaxHeld
    /\ \E c \in {createMatrix(Machine)} :
          Return(c.st, held \cup {c.buf}, colors, "createMatrix", NoArgs, c.buf)

DropMatrix ==
    /\ last.calls < PoolCalls
    /\ \E b \in held :
          \E st \in {dropMatrix(Machine, b)} :
             Return(st, held \ {b}, colors, "dropMatrix", NoArgs, b)

CreateColor ==
    /\ last.calls < PoolCalls
    /\ Len(colors) < MaxColors
    /\ \E c \in {createColor(Machine, "rgb", Sample("rgb"), Scale)} :
          Return(c.st, held, Append(colors, c.color), "createColor",
                 [space |-> "rgb"], c.color.value)

DropColor ==
    /\ last.calls < PoolCalls
    /\ \E i \in DOMAIN colors :
          \E st \in {dropColor(Machine, colors[i])} :
             Return(st, held, RemoveAt(colors, i), "dropColor", NoArgs, colors[i].value)

PreallocatePool ==
    /\ last.calls < PoolCalls
    /\ \E n \in PreallocSizes :
          \E st \in {preallocatePool(Machine, n)} :
             Return(st, held, colors, "preallocatePool", [n |-> n], 0)

\* the caller releases once more the buffer it has just released, through
\* the reference it kept
DropAgain ==
    /\ last.calls < PoolCalls
    /\ last.op \in {"dropMatrix", "dropColor"}
    /\ \E st \in {dropMatrix(Machine, last.buf)} :
          Return(st, held, colors, "dropMatrix", [again |-> TRUE], last.buf)

ClearPool ==
    /\ last.calls < PoolCalls
    /\ \E st \in {clearPool(Machine)} :
          Return(st, held, colors, "clearPool", NoArgs, 0)

NextPool ==
    \/ CreateMatrix
    \/ DropMatrix
    \/ CreateColor
    \/ DropColor
    \/ DropAgain
    \/ PreallocatePool
    \/ ClearPool

SpecPool == Init /\ [][NextPool]_vars

\* C5: after any sequence of createMatrix, dropMatrix, dropColor,
\* preallocatePool(n) and clearPool calls the free-list holds between 0 and
\* MAX_POOL_SIZE buffers; a drop issued when it holds MAX_POOL_SIZE leaves it
\* unchanged; preallocatePool(n) appends min(n, MAX_POOL_SIZE - size) buffers
\* and keeps those already there; clearPool leaves it empty.
PoolWithinCapacity ==
    /\ Len(pool) \in 0..MAX_POOL_SIZE
    /\ (last.op \in {"dropMatrix", "dropColor"} /\ Len(last.pre.pool) = MAX_POOL_SIZE)
          => pool = last.pre.pool
    /\ last.op = "preallocatePool"
          => /\ Len(pool) = Len(last.pre.pool)
                              + Min2(last.args.n, MAX_POOL_SIZE - Len(last.pre.pool))
             /\ SubSeq(pool, 1, Len(last.pre.pool)) = last.pre.pool
    /\ last.op = "clearPool" => pool = <<>>

\* a dropMatrix was issued on a full free-list
DropOnFullPool ==
    /\ last.op = "dropMatrix"
    /\ Len(last.pre.pool) = MAX_POOL_SIZE

\* C6 as stated: for any pool state, createMatrix() right after dropMatrix(b)
\* or dropColor of a colour whose value is b returns b.
AcquireAfterReleaseReturnsSame ==
    (last.op = "createMatrix" /\ last.prev.op \in {"dropMatrix", "dropColor"})
        => last.buf = last.prev.buf

\* C6, amended: createMatrix() right after dropMatrix(b) or dropColor of a
\* colour whose value is b returns b, provided the free-list held fewer than
\* MAX_POOL_SIZE buffers when b was dropped.
AcquireAfterReleaseBelowCapacity ==
    (/\ last.op = "createMatrix"
     /\ last.prev.op \in {"dropMatrix", "dropColor"}
     /\ last.prev.len < MAX_POOL_SIZE)
        => last.buf = last.prev.buf

\* createMatrix ran right after a dropColor on a free-list that was neither
\* empty nor full
AcquiredAfterDropColor ==
    /\ last.op = "createMatrix"
    /\ last.prev.op = "dropColor"
    /\ last.prev.len \in 1..(MAX_POOL_SIZE - 1)
    /\ last.buf = last.prev.buf

----------------------------------------------------------------------------
(* SpecRoute: the caller creates a colour of any space and an output       *)
(* matrix, and converts the colour to every space with convertColor.       *)

\* calls per run
RouteCalls == 3

RouteCreateMatrix ==
    /\ last.calls < RouteCalls
    /\ held = {}
    /\ \E c \in {createMatrix(Machine)} :
          Return(c.st, {c.buf}, colors, "createMatrix", NoArgs, c.buf)

RouteCreateColor ==
    /\ last.calls < RouteCalls
    /\ colors = <<>>
    /\ \E space \in Spaces :
          \E c \in {createColor(Machine, space, Sample(space), Scale)} :
             Return(c.st, held, <<c.color>>, "createColor", [space |-> space],
                    c.color.value)

RouteConvert ==
    /\ last.calls < RouteCalls
    /\ colors # <<>>
    /\ \E to \in Spaces, output \in held :
          \E st \in {convertColor(Machine, colors[1].value, output, colors[1].space, to)} :
             Return(st, held, colors, "convertColor",
                    [from |-> colors[1].space, to |-> to,
                     input |-> colors[1].value, output |-> output],
                    output)

NextRoute ==
    \/ RouteCreateMatrix
    \/ RouteCreateColor
    \/ RouteConvert

SpecRoute == Init /\ [][NextRoute]_vars

\* the adapters the last call ran, in order
Trace == AdapterTrace(last.log)

\* t is a path from space `from` to space `to`: every adapter starts where
\* the one before it ended
IsPath(t, from, to) ==
    /\ Len(t) >= 1
    /\ AdapterType[t[1]][1] = from
    /\ \A i \in 1..(Len(t) - 1) : AdapterType[t[i]][2] = AdapterType[t[i + 1]][1]
    /\ AdapterType[t[Len(t)]][2] = to

\* C1: for every ordered pair of distinct spaces the adapters convertColor
\* runs form a well-typed path from `from` to `to`.
ChainIsWellTypedPath ==
    (last.op = "convertColor" /\ last.args.from # last.args.to)
        => IsPath(Trace, last.args.from, last.args.to)

\* a conversion across the two white points has run: lab to oklab
LabToOklabRan ==
    /\ last.op = "convertColor"
    /\ last.args.from = "lab"
    /\ last.args.to = "oklab"
    /\ Trace = <<"labToXyz50", "xyz50ToXyz65", "xyz65ToOklab">>

\* the hub of the white point of a space: xyz50 for the D50 spaces, else xyz65
WhitePointHub(space) == IF space \in {"lab", "lch", "xyz50"} THEN "xyz50" ELSE "xyz65"

Bridges == {"xyz65ToXyz50", "xyz50ToXyz65"}

ChainOrNone(table, space) == IF space \in DOMAIN table THEN table[space] ELSE <<>>

\* C2: a Bradford bridge runs only on the hub path and only when the hubs of
\* `from` and `to` differ: then exactly one runs, xyz65ToXyz50 from hub xyz65
\* and xyz50ToXyz65 from hub xyz50, after the to-hub chain and before the
\* from-hub chain; otherwise none runs.
BridgeOnlyBetweenHubs ==
    last.op = "convertColor" =>
        LET from == last.args.from
            to == last.args.to
            toHub == ChainOrNone(TO_HUB, from)
            fromHub == ChainOrNone(FROM_HUB, to)
            at == {i \in 1..Len(Trace) : Trace[i] \in Bridges}
        IN  IF from = to \/ HasDirect(from, to) \/ WhitePointHub(from) = WhitePointHub(to)
            THEN at = {}
            ELSE /\ at = {Len(toHub) + 1}
                 /\ Trace[Len(toHub) + 1] = (IF WhitePointHub(from) = "xyz65"
                                             THEN "xyz65ToXyz50" ELSE "xyz50ToXyz65")
                 /\ SubSeq(Trace, 1, Len(toHub)) = toHub
                 /\ SubSeq(Trace, Len(toHub) + 2, Len(Trace)) = fromHub

\* oklch to lch ran with the bridge third of five steps
BridgeRanInTheMiddle ==
    /\ last.op = "convertColor"
    /\ last.args.from = "oklch"
    /\ last.args.to = "lch"
    /\ Len(Trace) = 5
    /\ Trace[3] = "xyz65ToXyz50"

\* the spaces one adapter away from a space of S, and S
OneMore(S) == S \cup {AdapterType[a][2] : a \in {x \in Adapters : AdapterType[x][1] \in S}}

RECURSIVE Hops(_, _, _)
Hops(S, to, n) == IF to \in S THEN n ELSE Hops(OneMore(S), to, n + 1)

\* the length of the shortest composable sequence of adapters from `from` to `to`
Distance(from, to) == Hops({from}, to, 0)

\* C3 as stated: for every ordered pair of distinct spaces the chain that
\* convertColor runs is a shortest one.
ChainIsShortest ==
    (last.op = "convertColor" /\ last.args.from # last.args.to)
        => Len(Trace) = Distance(last.args.from, last.args.to)

\* C4 as stated: one convertColor call runs at most 5 adapter steps.
AtMostFiveSteps == last.op = "convertColor" => Len(Trace) <= 5

\* C4, amended: one convertColor call runs at most 8 adapter steps, the
\* to-hub chain, the bridge and the from-hub chain all counted.
AtMostEightSteps == last.op = "convertColor" => Len(Trace) <= 8

\* a call that ran 8 steps: hsl to hwb
EightStepsRan ==
    /\ last.op = "convertColor"
    /\ last.args.from = "hsl"
    /\ last.args.to = "hwb"
    /\ Len(Trace) = 8

----------------------------------------------------------------------------
(* SpecAdapter: the caller creates a colour and runs adapters on its buffer *)
(* in place, adapter(value, value), each adapter on a colour of the space   *)
(* it reads; the caller re-tags the colour with the space the adapter       *)
(* writes.                                                                  *)

\* calls per run
AdapterCalls == 3

AdapterCreateColor ==
    /\ last.calls < AdapterCalls
    /\ colors = <<>>
    /\ \E space \in Spaces :
          \E c \in {createColor(Machine, space, values, Scale) : values \in Samples(space)} :
             Return(c.st, held, <<c.color>>, "createColor", [space |-> space],
                    c.color.value)

AdapterInPlace ==
    /\ last.calls < AdapterCalls
    /\ colors # <<>>
    /\ \E name \in Adapters :
          /\ AdapterType[name][1] = colors[1].space
          /\ \E st \in {Step(Machine, name, colors[1].value, colors[1].value)} :
                Return(st, held, <<[colors[1] EXCEPT !.space = AdapterType[name][2]]>>,
                       "adapter", [name |-> name], colors[1].value)

NextAdapter ==
    \/ AdapterCreateColor
    \/ AdapterInPlace

SpecAdapter == Init /\ [][NextAdapter]_vars

\* what adapter(copy, out) writes to out, copy holding values and out being
\* another buffer
SeparateOutput(name, values) ==
    CallAdapter([heap |-> (1 :> values) @@ (2 :> <<0, 0, 0>>), pool |-> <<>>, log |-> <<>>],
                name, 1, 2).heap[2]

\* C8: every adapter is alias-safe: adapter(buf, buf) leaves in buf the
\* values that adapter(copy of buf, out) writes to a separate out.
AdaptersAliasSafe ==
    last.op = "adapter"
        => heap[last.buf] = SeparateOutput(last.args.name, last.pre.heap[last.buf])

\* the Bradford bridge ran in place and changed the buffer
BridgeRanInPlace ==
    /\ last.op = "adapter"
    /\ last.args.name = "xyz65ToXyz50"
    /\ heap[last.buf] # last.pre.heap[last.buf]

----------------------------------------------------------------------------
(* SpecColor: the caller creates a colour, mutates it, derives colours     *)
(* from it and drops colours.                                              *)

\* calls per run
ColorCalls == 2

ColorCreate ==
    /\ last.calls < ColorCalls
    /\ colors = <<>>
    /\ \E space \in Spaces :
          \E c \in {createColor(Machine, space, Sample(space), Scale \div 2)} :
             Return(c.st, held, <<c.color>>, "createColor", [space |-> space],
                    c.color.value)

ColorMutate ==
    /\ last.calls < ColorCalls
    /\ \E i \in DOMAIN colors, to \in Spaces :
          \E c \in {mutateColor(Machine, colors[i], to)} :
             Return(c.st, held, [colors EXCEPT ![i] = c.color], "mutateColor",
                    [i |-> i, to |-> to], c.color.value)

ColorDerive ==
    /\ last.calls < ColorCalls
    /\ Len(colors) < MaxColors
    /\ \E i \in DOMAIN colors, to \in Spaces :
          \E c \in {deriveColor(Machine, colors[i], to)} :
             Return(c.st, held, Append(colors, c.color), "deriveColor",
                    [i |-> i, to |-> to], c.color.value)

ColorDrop ==
    /\ last.calls < ColorCalls
    /\ \E i \in DOMAIN colors :
          \E st \in {dropColor(Machine, colors[i])} :
             Return(st, held, RemoveAt(colors, i), "dropColor", NoArgs, colors[i].value)

NextColor ==
    \/ ColorCreate
    \/ ColorMutate
    \/ ColorDerive
    \/ ColorDrop

SpecColor == Init /\ [][NextColor]_vars

\* what convertColor(copy, out, from, to) writes to out, copy holding values
\* and out being another buffer
SeparateConversion(values, from, to) ==
    convertColor([heap |-> (1 :> values) @@ (2 :> <<0, 0, 0>>), pool |-> <<>>, log |-> <<>>],
                 1, 2, from, to).heap[2]

\* C9: mutateColor(color, to) keeps color.value the same buffer and
\* color.alpha the same number and sets color.space to `to`; with to # space
\* the buffer holds the converted channels; with to = space nothing changes:
\* not the colour, not a buffer's contents, not the pool.
MutateColorFrame ==
    last.op = "mutateColor" =>
        LET before == last.pre.colors[last.args.i]
            after == colors[last.args.i]
        IN  /\ after.value = before.value
            /\ after.alpha = before.alpha
            /\ after.space = last.args.to
            /\ last.args.to # before.space
                  => heap[after.value]
                       = SeparateConversion(last.pre.heap[before.value], before.space,
                                            last.args.to)
            /\ last.args.to = before.space
                  => /\ colors = last.pre.colors
                     /\ heap = last.pre.heap
                     /\ pool = last.pre.pool

\* a colour was mutated to another space and its channels changed
MutatedToOtherSpace ==
    /\ last.op = "mutateColor"
    /\ last.args.to # last.pre.colors[last.args.i].space
    /\ heap[last.buf] # last.pre.heap[last.buf]
    /\ colors[last.args.i].alpha = Scale \div 2

\* C10: deriveColor(color, to) returns a new colour of space `to` with the
\* alpha of color and a buffer that is not color.value; color keeps its
\* space, its buffer, the buffer's contents and its alpha; with to = space
\* the new buffer holds the same channels.
DeriveColorFrame ==
    last.op = "deriveColor" =>
        LET source == last.pre.colors[last.args.i]
            derived == colors[Len(colors)]
        IN  /\ Len(colors) = Len(last.pre.colors) + 1
            /\ derived.space = last.args.to
            /\ derived.alpha = source.alpha
            /\ derived.value # source.value
            /\ colors[last.args.i] = source
            /\ heap[source.value] = last.pre.heap[source.value]
            /\ last.args.to = source.space => heap[derived.value] = heap[source.value]

\* a colour was derived in its own space: a copy in another buffer
DerivedInSameSpace ==
    /\ last.op = "deriveColor"
    /\ last.args.to = last.pre.colors[last.args.i].space
    /\ last.buf # colors[last.args.i].value
    /\ heap[last.buf] = heap[colors[last.args.i].value]
    /\ heap[last.buf] # <<0, 0, 0>>

----------------------------------------------------------------------------
(* SpecUtil: the caller creates colours and calls the contrast utilities   *)
(* on them.  The colours a utility returns join the caller's colours.      *)

\* calls per run
UtilCalls == 3

\* the colours the caller creates: in gamut, two of them of the same space
UtilColours ==
    {[space |-> "rgb", values |-> Sample("rgb")],
     [space |-> "rgb", values |-> Grey("rgb")],
     [space |-> "hsl", values |-> Sample("hsl")],
     [space |-> "lch", values |-> Sample("lch")]}

\* the target contrasts asked for, in percent
TargetContrasts == {60 * Scale}

\* the step counts asked for.  steps = 1 with two stops makes a colour of
\* NaN (stepInterval = 1 / (steps - 1)) and is not drawn here.
StepChoices == {0, 2}

\* the stops the caller passes: indices into its colours, all of one space
StopChoices ==
    {<<>>} \cup {<<i>> : i \in DOMAIN colors}
           \cup {p \in (DOMAIN colors) \X (DOMAIN colors) :
                    p[1] # p[2] /\ colors[p[1]].space = colors[p[2]].space}

UtilCreateColor ==
    /\ last.calls < UtilCalls
    /\ Len(colors) < MaxColors
    /\ \E u \in UtilColours :
          \E c \in {createColor(Machine, u.space, u.values, Scale)} :
             Return(c.st, held, Append(colors, c.color), "createColor",
                    [space |-> u.space], c.color.value)

UtilGetLuminanceD65 ==
    /\ last.calls < UtilCalls
    /\ \E i \in DOMAIN colors :
          \E c \in {getLuminanceD65(Machine, colors[i])} :
             Return(c.st, held, colors, "getLuminanceD65", [i |-> i, y |-> c.y], 0)

UtilCheckContrast ==
    /\ last.calls < UtilCalls
    /\ \E i \in DOMAIN colors, j \in DOMAIN colors :
          \E c \in {checkContrast(Machine, colors[i], colors[j])} :
             Return(c.st, held, colors, "checkContrast",
                    [i |-> i, j |-> j, y |-> c.y], 0)

UtilMatchContrast ==
    /\ last.calls < UtilCalls
    /\ \E i \in DOMAIN colors, j \in DOMAIN colors, target \in TargetContrasts :
          \E c \in {matchContrast(Machine, colors[i], colors[j], target)} :
             Return(c.st, held, Append(colors, c.color), "matchContrast",
                    [i |-> i, j |-> j, target |-> target], c.color.value)

UtilMatchScales ==
    /\ last.calls < UtilCalls
    /\ \E stops \in StopChoices, j \in DOMAIN colors,
          target \in TargetContrasts, steps \in StepChoices :
          \E c \in {matchScales(Machine, [n \in DOMAIN stops |-> colors[stops[n]]],
                                colors[j], target, steps)} :
             Return(c.st, held, colors \o c.colors, "matchScales",
                    [stops |-> stops, j |-> j, target |-> target, steps |-> steps], 0)

NextUtil ==
    \/ UtilCreateColor
    \/ UtilGetLuminanceD65
    \/ UtilCheckContrast
    \/ UtilMatchContrast
    \/ UtilMatchScales

SpecUtil == Init /\ [][NextUtil]_vars

\* the buffers a call acquired and had not released when it returned
Unreleased(log) ==
    {log[i].dst : i \in {i \in DOMAIN log :
        /\ log[i].ev = "createMatrix"
        /\ \A k \in (i + 1)..Len(log) :
              ~(log[k].ev = "dropMatrix" /\ log[k].src = log[i].dst)}}

\* the buffers of the colours the last call returned to the caller
Returned == {colors[i].value : i \in (Len(last.pre.colors) + 1)..Len(colors)}

UtilityOps == {"getLuminanceD65", "checkContrast", "matchContrast", "matchScales"}

\* C7: when a conversion or utility operation returns, every buffer it
\* acquired from the pool has been released, except the buffers that are the
\* value of a colour it returns.
AcquiredBuffersReleasedOrReturned ==
    last.op \in UtilityOps => Unreleased(last.log) \subseteq Returned

----------------------------------------------------------------------------
(* SpecUnregistered: the caller converts between a registered space and a  *)
(* tag the routing tables do not hold, or between two such tags.           *)

\* calls per run
UnregisteredCalls == 4

\* space tags absent from NATIVE_HUB, TO_HUB, FROM_HUB and DIRECT_HUB
UnregisteredTags == {"foo", "bar"}

Tags == Spaces \cup UnregisteredTags

\* the channels of a colour the caller creates with a tag
TagSample(tag) ==
    IF tag \in Spaces
    THEN Sample(tag)
    ELSE <<(3 * Scale) \div 10, (4 * Scale) \div 10, Scale \div 2>>

UnregisteredCreateMatrix ==
    /\ last.calls < UnregisteredCalls
    /\ held = {}
    /\ \E c \in {createMatrix(Machine)} :
          Return(c.st, {c.buf}, colors, "createMatrix", NoArgs, c.buf)

UnregisteredCreateColor ==
    /\ last.calls < UnregisteredCalls
    /\ colors = <<>>
    /\ \E tag \in Tags :
          \E c \in {createColor(Machine, tag, TagSample(tag), Scale)} :
             Return(c.st, held, <<c.color>>, "createColor", [space |-> tag],
                    c.color.value)

\* convertColor(input, output, from, to) with from or to unregistered, into
\* a matrix of the caller
UnregisteredConvert ==
    /\ last.calls < UnregisteredCalls
    /\ colors # <<>>
    /\ \E to \in Tags, output \in held :
          /\ colors[1].space \in UnregisteredTags \/ to \in UnregisteredTags
          /\ \E st \in {convertColor(Machine, colors[1].value, output, colors[1].space, to)} :
                Return(st, held, colors, "convertColor",
                       [from |-> colors[1].space, to |-> to,
                        input |-> colors[1].value, output |-> output],
                       output)

NextUnregistered ==
    \/ UnregisteredCreateMatrix
    \/ UnregisteredCreateColor
    \/ UnregisteredConvert

SpecUnregistered == Init /\ [][NextUnregistered]_vars

\* the spaces that are their own hub
HubSpaces == {"xyz50", "xyz65"}

\* C11: a convertColor call with `from` or `to` absent from the routing
\* tables runs no Bradford bridge, and when the other tag is a hub space or
\* is unregistered too it runs no adapter at all and leaves in output the
\* channels input held.
UnregisteredTakesNoOpPaths ==
    (/\ last.op = "convertColor"
     /\ last.args.from \in UnregisteredTags \/ last.args.to \in UnregisteredTags)
    => /\ \A i \in DOMAIN Trace : Trace[i] \notin Bridges
       /\ ({last.args.from, last.args.to} \subseteq UnregisteredTags \cup HubSpaces)
          => /\ Trace = <<>>
             /\ heap[last.args.output] = last.pre.heap[last.args.input]

----------------------------------------------------------------------------
(* parse.ts.  A string is a sequence of one-character strings.  An index   *)
(* into a string counts from 0, as in JavaScript.                          *)

\* the characters String.prototype.trim and \s take for white space
WhiteSpace == {" ", "\t"}

\* css.trim()
trim(s) ==
    CHOOSE it \in {
        IF kept = {} THEN <<>>
        ELSE SubSeq(s, CHOOSE i \in kept : \A j \in kept : i <= j,
                       CHOOSE i \in kept : \A j \in kept : j <= i)
        : kept \in {{i \in DOMAIN s : s[i] \notin WhiteSpace}}} : TRUE

\* s.indexOf(c), -1 when c does not occur
indexOf(s, c) ==
    IF \E i \in DOMAIN s : s[i] = c
    THEN (CHOOSE i \in DOMAIN s : s[i] = c /\ \A j \in 1..(i - 1) : s[j] # c) - 1
    ELSE -1

\* s.lastIndexOf(c), -1 when c does not occur
lastIndexOf(s, c) ==
    IF \E i \in DOMAIN s : s[i] = c
    THEN (CHOOSE i \in DOMAIN s : s[i] = c /\ \A j \in (i + 1)..Len(s) : s[j] # c) - 1
    ELSE -1

\* s.slice(from, to) for from, to >= 0: empty when to <= from
slice(s, from, to) == SubSeq(s, from + 1, Min2(to, Len(s)))

\* the value of a hexadecimal digit, -1 for any other character
HexValue(c) ==
    CASE c = "0" -> 0 [] c = "1" -> 1 [] c = "2" -> 2 [] c = "3" -> 3
      [] c = "4" -> 4 [] c = "5" -> 5 [] c = "6" -> 6 [] c = "7" -> 7
      [] c = "8" -> 8 [] c = "9" -> 9
      [] c \in {"a", "A"} -> 10 [] c \in {"b", "B"} -> 11
      [] c \in {"c", "C"} -> 12 [] c \in {"d", "D"} -> 13
      [] c \in {"e", "E"} -> 14 [] c \in {"f", "F"} -> 15
      [] OTHER -> -1

\* the number of leading characters of s that are hexadecimal digits
HexPrefix(s) ==
    IF \E i \in DOMAIN s : HexValue(s[i]) < 0
    THEN (CHOOSE i \in DOMAIN s : HexValue(s[i]) < 0
                                   /\ \A j \in 1..(i - 1) : HexValue(s[j]) >= 0) - 1
    ELSE Len(s)

RECURSIVE HexNumber(_, _)
\* the number the first n digits of s spell.  It may exceed 2^31 - 1, so it
\* is held as [hi, lo], standing for hi * 2^16 + lo with 0 <= lo < 2^16.
HexNumber(s, n) ==
    IF n = 0 THEN [nan |-> FALSE, hi |-> 0, lo |-> 0]
    ELSE CHOOSE it \in {
             [nan |-> FALSE,
              hi  |-> before.hi * 16 + (before.lo * 16 + HexValue(s[n])) \div 65536,
              lo  |-> (before.lo * 16 + HexValue(s[n])) % 65536]
             : before \in {HexNumber(s, n - 1)}} : TRUE

\* Number.parseInt(hex, 16): the digits before the first character that is
\* no digit, NaN when there is none.  Signs and a 0x prefix are not drawn.
parseInt16(hex) ==
    IF HexPrefix(hex) = 0
    THEN [nan |-> TRUE, hi |-> 0, lo |-> 0]
    ELSE HexNumber(hex, HexPrefix(hex))

\* a conversion that clamps at 2^31 - 1 where ToInt32 wraps
ToInt32Saturating(num) ==
    IF num.nan THEN 0
    ELSE IF num.hi >= 32768 THEN 32767 * 65536 + 65535
    ELSE num.hi * 65536 + num.lo

\* ToInt32, which >> and & apply to their operands: NaN becomes 0, any other
\* number is taken modulo 2^32 into -2^31 .. 2^31 - 1
ToInt32(num) ==
    IF num.nan THEN 0
    ELSE IF num.hi % 65536 >= 32768
    THEN ((num.hi % 65536) - 65536) * 65536 + num.lo
    ELSE (num.hi % 65536) * 65536 + num.lo

\* (num >> shift) & mask, mask being 2^k - 1: the shift keeps the sign
ShiftMask(num, shift, mask) == (ToInt32(num) \div (2 ^ shift)) % (mask + 1)

\* fastParseHex: raised is TRUE when it throws
fastParseHex(hex) ==
    CHOOSE it \in {
        IF Len(hex) = 3
        THEN [raised |-> FALSE,
              r |-> ShiftMask(num, 8, 15) * 17, g |-> ShiftMask(num, 4, 15) * 17,
              b |-> ShiftMask(num, 0, 15) * 17, a |-> 255]
        ELSE IF Len(hex) = 4
        THEN [raised |-> FALSE,
              r |-> ShiftMask(num, 12, 15) * 17, g |-> ShiftMask(num, 8, 15) * 17,
              b |-> ShiftMask(num, 4, 15) * 17, a |-> ShiftMask(num, 0, 15) * 17]
        ELSE IF Len(hex) = 6
        THEN [raised |-> FALSE,
              r |-> ShiftMask(num, 16, 255), g |-> ShiftMask(num, 8, 255),
              b |-> ShiftMask(num, 0, 255), a |-> 255]
        ELSE IF Len(hex) = 8
        THEN [raised |-> FALSE,
              r |-> ShiftMask(num, 24, 255), g |-> ShiftMask(num, 16, 255),
              b |-> ShiftMask(num, 8, 255), a |-> ShiftMask(num, 0, 255)]
        ELSE [raised |-> TRUE, r |-> 0, g |-> 0, b |-> 0, a |-> 0]
        : num \in {parseInt16(hex)}} : TRUE

\* a * b / c on a number that may be NaN
Scaled(a, b, c) == IF a = NaN THEN NaN ELSE RoundDiv(a * b, c)

Digits == <<"0", "1", "2", "3", "4", "5", "6", "7", "8", "9">>

IsDigit(c) == \E d \in DOMAIN Digits : Digits[d] = c

DigitValue(c) == (CHOOSE d \in DOMAIN Digits : Digits[d] = c) - 1

\* the number of characters of s from index i on (counted from 1) that are
\* decimal digits
DigitRun(s, i) ==
    IF \E j \in i..Len(s) : ~IsDigit(s[j])
    THEN (CHOOSE j \in i..Len(s) : ~IsDigit(s[j]) /\ \A k \in i..(j - 1) : IsDigit(s[k])) - i
    ELSE Len(s) - i + 1

RECURSIVE DigitsValue(_, _, _)
\* the natural number the n digits of s from index i on spell
DigitsValue(s, i, n) ==
    IF n = 0 THEN 0
    ELSE DigitsValue(s, i, n - 1) * 10 + DigitValue(s[i + n - 1])

\* Number.parseFloat(s) as a fixed-point number: an optional sign, digits, an
\* optional point and digits; what follows is ignored; NaN when there is no
\* digit or s is undefined (<<>>).  Exponents are not drawn.
parseFloat(s) ==
    CHOOSE it \in {CHOOSE it \in {CHOOSE it \in {
        IF intLen + fracLen = 0
        THEN NaN
        ELSE (IF start = 2 /\ s[1] = "-" THEN -1 ELSE 1)
             * (DigitsValue(s, start, intLen) * Scale
                + RoundDiv(DigitsValue(s, start + intLen + 1, fracLen) * Scale,
                           10 ^ fracLen))
        : fracLen \in {IF start + intLen <= Len(s) /\ s[start + intLen] = "."
                       THEN DigitRun(s, start + intLen + 1)
                       ELSE 0}} : TRUE
        : intLen \in {DigitRun(s, start)}} : TRUE
        : start \in {IF Len(s) > 0 /\ s[1] \in {"-", "+"} THEN 2 ELSE 1}} : TRUE

\* the characters content.split(/[,\s/]+/) splits at
Separators == WhiteSpace \cup {",", "/"}

RECURSIVE split(_)
\* content.split(/[,\s/]+/).filter(Boolean): the maximal runs of characters
\* that are no separators
split(content) ==
    IF content = <<>> THEN <<>>
    ELSE IF Head(content) \in Separators THEN split(Tail(content))
    ELSE CHOOSE it \in {
             <<SubSeq(content, 1, n)>> \o split(SubSeq(content, n + 1, Len(content)))
             : n \in {IF \E j \in DOMAIN content : content[j] \in Separators
                      THEN (CHOOSE j \in DOMAIN content :
                               /\ content[j] \in Separators
                               /\ \A k \in 1..(j - 1) : content[k] \notin Separators) - 1
                      ELSE Len(content)}} : TRUE

\* parts[i], i counted from 0; undefined is <<>>
Part(parts, i) == IF i + 1 \in DOMAIN parts THEN parts[i + 1] ELSE <<>>

UpperCase ==
    <<"A", "B", "C", "D", "E", "F", "G", "H", "I", "J", "K", "L", "M",
      "N", "O", "P", "Q", "R", "S", "T", "U", "V", "W", "X", "Y", "Z">>

LowerCase ==
    <<"a", "b", "c", "d", "e", "f", "g", "h", "i", "j", "k", "l", "m",
      "n", "o", "p", "q", "r", "s", "t", "u", "v", "w", "x", "y", "z">>

toLowerCase(s) ==
    [i \in DOMAIN s |->
        IF \E k \in DOMAIN UpperCase : UpperCase[k] = s[i]
        THEN LowerCase[CHOOSE k \in DOMAIN UpperCase : UpperCase[k] = s[i]]
        ELSE s[i]]

\* the characters of the names the parser and the formatter write
Spell ==
    [rgb |-> <<"r", "g", "b">>, hsl |-> <<"h", "s", "l">>,
     hsv |-> <<"h", "s", "v">>, hwb |-> <<"h", "w", "b">>,
     lab |-> <<"l", "a", "b">>, lch |-> <<"l", "c", "h">>,
     lrgb |-> <<"l", "r", "g", "b">>,
     oklab |-> <<"o", "k", "l", "a", "b">>, oklch |-> <<"o", "k", "l", "c", "h">>,
     xyz50 |-> <<"x", "y", "z", "5", "0">>, xyz65 |-> <<"x", "y", "z", "6", "5">>,
     color |-> <<"c", "o", "l", "o", "r">>, xyz |-> <<"x", "y", "z">>,
     deg |-> <<"d", "e", "g">>]
    @@ ("srgb-linear" :> <<"s", "r", "g", "b", "-", "l", "i", "n", "e", "a", "r">>)
    @@ ("xyz-d65" :> <<"x", "y", "z", "-", "d", "6", "5">>)
    @@ ("xyz-d50" :> <<"x", "y", "z", "-", "d", "5", "0">>)

\* the space tag a name becomes: the tag it spells, and "unknown" for a name
\* (or undefined) that spells no space of the library
TagOf(name) ==
    IF \E t \in Spaces : Spell[t] = name
    THEN CHOOSE t \in Spaces : Spell[t] = name
    ELSE "unknown"

\* what parseColor hands back when it throws
NoColor == [space |-> "none", value |-> 0, alpha |-> 0]

\* s.endsWith(c)
endsWith(s, c) == Len(s) > 0 /\ s[Len(s)] = c

\* Math.max(0, Math.min(1, alpha)): NaN stays NaN
ClampAlpha(alpha) ==
    IF alpha = NaN THEN NaN ELSE Max2(0, Min2(Scale, alpha))

\* the space a functional notation names: the profile after color(, else the
\* function name, a trailing a of a name longer than 3 dropped
NamedSpace(spaceName, parts) ==
    IF spaceName = Spell.color
    THEN (IF Part(parts, 0) = Spell["srgb-linear"] THEN "lrgb"
          ELSE IF Part(parts, 0) \in {Spell.xyz, Spell["xyz-d65"]} THEN "xyz65"
          ELSE IF Part(parts, 0) = Spell["xyz-d50"] THEN "xyz50"
          ELSE TagOf(Part(parts, 0)))
    ELSE IF Len(spaceName) > 3 /\ endsWith(spaceName, "a")
    THEN TagOf(SubSeq(spaceName, 1, Len(spaceName) - 1))
    ELSE TagOf(spaceName)

\* the three channels as written, no scaling undone
ParsedChannelsUnscaled(space, v0, v1, v2) == <<v0, v1, v2>>

\* the three channels parsed, scaled as their space asks
ParsedChannels(space, v0, v1, v2) ==
    IF space = "rgb"
    THEN <<Scaled(v0, 1, 255), Scaled(v1, 1, 255), Scaled(v2, 1, 255)>>
    ELSE IF space \in {"hsl", "hwb"}
    THEN <<v0, Scaled(v1, 1, 100), Scaled(v2, 1, 100)>>
    ELSE IF space \in {"lab", "lch", "oklab", "oklch"}
    THEN <<Scaled(v0, 1, 100), v1, v2>>
    ELSE <<v0, v1, v2>>

\* the functional notation: trimmed.slice(0, openParen) names the space,
\* trimmed.slice(openParen + 1, closeParen) holds the channels
parseFunction(st, trimmed, openParen, closeParen) ==
    CHOOSE it \in {CHOOSE it \in {CHOOSE it \in {CHOOSE it \in {CHOOSE it \in {CHOOSE it \in {
        [st     |-> c.st,
         raised |-> FALSE,
         color  |-> [c.color EXCEPT !.alpha = ClampAlpha(alpha)]]
        : c \in {createColor(st, space,
                             ParsedChannels(space,
                                            parseFloat(Part(parts, offset)),
                                            parseFloat(Part(parts, offset + 1)),
                                            parseFloat(Part(parts, offset + 2))),
                             Scale)}} : TRUE
        : alpha \in {IF Part(parts, offset + 3) = <<>> THEN Scale
                     ELSE IF endsWith(Part(parts, offset + 3), "%")
                     THEN Scaled(parseFloat(Part(parts, offset + 3)), 1, 100)
                     ELSE parseFloat(Part(parts, offset + 3))}} : TRUE
        : space \in {NamedSpace(spaceName, parts)}} : TRUE
        : offset \in {IF spaceName = Spell.color THEN 1 ELSE 0}} : TRUE
        : parts \in {split(slice(trimmed, openParen + 1, closeParen))}} : TRUE
        : spaceName \in {toLowerCase(slice(trimmed, 0, openParen))}} : TRUE

\* parseColor returns [st, raised, color]: raised is TRUE when it throws,
\* and color is then NoColor
parseColor(st, css) ==
    CHOOSE it \in {
        IF Len(trimmed) > 0 /\ trimmed[1] = "#"
        THEN CHOOSE it \in {
                 IF hex.raised
                 THEN [st |-> st, raised |-> TRUE, color |-> NoColor]
                 ELSE CHOOSE it \in {
                          [st     |-> c.st,
                           raised |-> FALSE,
                           color  |-> [c.color EXCEPT !.alpha = RoundDiv(hex.a * Scale, 255)]]
                          : c \in {createColor(st, "rgb",
                                               <<RoundDiv(hex.r * Scale, 255),
                                                 RoundDiv(hex.g * Scale, 255),
                                                 RoundDiv(hex.b * Scale, 255)>>,
                                               Scale)}} : TRUE
                 : hex \in {fastParseHex(slice(trimmed, 1, Len(trimmed)))}} : TRUE
        ELSE IF indexOf(trimmed, "(") # -1 /\ lastIndexOf(trimmed, ")") # -1
        THEN parseFunction(st, trimmed, indexOf(trimmed, "("), lastIndexOf(trimmed, ")"))
        ELSE [st |-> st, raised |-> TRUE, color |-> NoColor]
        : trimmed \in {trim(css)}} : TRUE

----------------------------------------------------------------------------
(* SpecParse: the caller parses one string, and may drop the colour it got *)

\* calls per run
ParseCalls == 2

\* the longest hexadecimal notation drawn, '#' not counted
MaxHexLen == 8

\* the longest other string drawn
MaxTextLen == 4

\* the digits a hexadecimal notation is drawn from
HexAlphabet == {"0", "7", "A", "f"}

\* the characters any other string is drawn from
TextAlphabet == {"r", "g", "b", "(", ")", "1", " "}

Strings(alphabet, maxLen) == UNION {[1..n -> alphabet] : n \in 0..maxLen}

\* '#' and digits, bare or with white space around
HexInputs ==
    {<<"#">> \o digits : digits \in Strings(HexAlphabet, MaxHexLen)}
    \cup {<<" ", "#">> \o digits \o <<" ">> : digits \in Strings(HexAlphabet, 3)}

ParseInputs == HexInputs \cup Strings(TextAlphabet, MaxTextLen)

ParseColor ==
    /\ last.calls < ParseCalls
    /\ colors = <<>>
    /\ last.op # "parseColor"
    /\ \E css \in ParseInputs :
          \E c \in {parseColor(Machine, css)} :
             Return(c.st, held,
                    IF c.raised THEN colors ELSE Append(colors, c.color),
                    "parseColor", [css |-> css, raised |-> c.raised], c.color.value)

ParseDropColor ==
    /\ last.calls < ParseCalls
    /\ \E i \in DOMAIN colors :
          \E st \in {dropColor(Machine, colors[i])} :
             Return(st, held, RemoveAt(colors, i), "dropColor", NoArgs, colors[i].value)

NextParse ==
    \/ ParseColor
    \/ ParseDropColor

SpecParse == Init /\ [][NextParse]_vars

\* the string parsed by the last call, trimmed
Trimmed == trim(last.args.css)

\* s starts with '#'
IsHexNotation(s) == Len(s) > 0 /\ s[1] = "#"

\* a '(' with no ')' after it, a ')' with no '(' before it, or no parenthesis
Unmatched(s) ==
    \/ \E i \in DOMAIN s : s[i] = "(" /\ \A j \in (i + 1)..Len(s) : s[j] # ")"
    \/ \E i \in DOMAIN s : s[i] = ")" /\ \A j \in 1..(i - 1) : s[j] # "("
    \/ \A i \in DOMAIN s : s[i] \notin {"(", ")"}

\* the call threw: it returned no colour and acquired no buffer
RaisedCleanly ==
    /\ last.args.raised
    /\ colors = last.pre.colors
    /\ \A i \in DOMAIN last.log : last.log[i].ev # "createMatrix"

\* C12: parseColor raises an error, returns no colour and acquires no buffer
\* for every '#' notation whose length after '#' is not 3, 4, 6 or 8 and for
\* every other string whose parentheses are unmatched.
MalformedInputRaises ==
    (/\ last.op = "parseColor"
     /\ \/ IsHexNotation(Trimmed) /\ Len(Trimmed) - 1 \notin {3, 4, 6, 8}
        \/ ~IsHexNotation(Trimmed) /\ Unmatched(Trimmed))
    => RaisedCleanly


\* the digits after '#'
HexDigits == SubSeq(Trimmed, 2, Len(Trimmed))

\* the four bytes a hex notation spells, read from its characters: one digit
\* n per byte stands for 17n, two digits for 16 times the first plus the
\* second, and a missing alpha is 255
SpelledBytes(d) ==
    IF Len(d) <= 4
    THEN [i \in 1..4 |-> IF i <= Len(d) THEN 17 * HexValue(d[i]) ELSE 255]
    ELSE [i \in 1..4 |-> IF 2 * i <= Len(d)
                          THEN 16 * HexValue(d[2 * i - 1]) + HexValue(d[2 * i])
                          ELSE 255]

\* C13: for every string of 3, 4, 6 or 8 hex digits after '#', parseColor
\* returns an rgb colour whose channels are r/255, g/255, b/255 and whose
\* alpha is a/255, the bytes taken in order from the string, also when the
\* 8 digits spell a number above 2^31 - 1.
HexBytesInOrder ==
    (/\ last.op = "parseColor"
     /\ IsHexNotation(Trimmed)
     /\ Len(HexDigits) \in {3, 4, 6, 8}
     /\ \A i \in DOMAIN HexDigits : HexValue(HexDigits[i]) # -1)
    => /\ ~last.args.raised
       /\ Len(colors) = 1
       /\ colors[1].space = "rgb"
       /\ \A i \in 1..3 :
             heap[colors[1].value][i] = RoundDiv(SpelledBytes(HexDigits)[i] * Scale, 255)
       /\ colors[1].alpha = RoundDiv(SpelledBytes(HexDigits)[4] * Scale, 255)

\* eight digits spelling a number above 2^31 - 1 were parsed
ParsedHexAboveInt32 ==
    /\ last.op = "parseColor"
    /\ IsHexNotation(Trimmed)
    /\ Len(HexDigits) = 8
    /\ HexValue(HexDigits[1]) >= 8
    /\ ~last.args.raised
    /\ Len(colors) = 1

----------------------------------------------------------------------------
(* formatCss: a colour written as CSS text *)

\* Math.round(val * f) for f = 10 ^ precision, val counted in 1/unit: the
\* rounded number is this count of 1/f
roundTo(val, unit, precision) == RoundDiv(val * (10 ^ precision), unit)

\* a / b cut towards zero, b positive
TruncDiv(a, b) == IF a >= 0 THEN a \div b ELSE -((-a) \div b)

\* (v * 255 + 0.5) | 0
ByteOf(v) == TruncDiv(2 * v * 255 + Scale, 2 * Scale)

\* n << k on 32 bits
ShiftLeft(n, k) ==
    IF n % (2 ^ (32 - k)) >= 2 ^ (31 - k)
    THEN ((n % (2 ^ (32 - k))) - 2 ^ (32 - k)) * (2 ^ k)
    ELSE (n % (2 ^ (32 - k))) * (2 ^ k)

RECURSIVE BitOr(_, _)
\* a | b on two's complement integers
BitOr(a, b) ==
    IF a = 0 THEN b
    ELSE IF b = 0 THEN a
    ELSE IF a = -1 \/ b = -1 THEN -1
    ELSE 2 * BitOr(a \div 2, b \div 2) + Max2(a % 2, b % 2)

HexDigitsOut ==
    <<"0", "1", "2", "3", "4", "5", "6", "7", "8", "9", "a", "b", "c", "d", "e", "f">>

RECURSIVE NatString(_, _)
\* the digits of the natural number n in the given base
NatString(n, base) ==
    IF n < base THEN <<HexDigitsOut[n + 1]>>
    ELSE NatString(n \div base, base) \o <<HexDigitsOut[(n % base) + 1]>>

\* n.toString(16)
toString16(n) == IF n < 0 THEN <<"-">> \o NatString(-n, 16) ELSE NatString(n, 16)

\* s.padStart(n, '0')
padStart(s, n) == IF Len(s) >= n THEN s ELSE [i \in 1..(n - Len(s)) |-> "0"] \o s

RECURSIVE FractionString(_, _)
\* the p decimal digits of r, the zeros at the end left out
FractionString(r, p) ==
    IF r = 0 \/ p = 0 THEN <<>>
    ELSE <<Digits[(r \div (10 ^ (p - 1))) + 1]>>
         \o FractionString(r % (10 ^ (p - 1)), p - 1)

\* the text of the number m / 10 ^ precision in a template string
NumberString(m, precision) ==
    (IF m < 0 THEN <<"-">> ELSE <<>>)
    \o NatString(Abs(m) \div (10 ^ precision), 10)
    \o (IF Abs(m) % (10 ^ precision) = 0 THEN <<>>
        ELSE <<".">> \o FractionString(Abs(m) % (10 ^ precision), precision))

\* an argument left out
Undefined == [given |-> FALSE, v |-> 0]

Given(v) == [given |-> TRUE, v |-> v]

\* the hex notation of an rgb colour
formatHex(value, alpha) ==
    <<"#">>
    \o padStart(toString16(BitOr(BitOr(ShiftLeft(ByteOf(value[1]), 16),
                                      ShiftLeft(ByteOf(value[2]), 8)),
                                ByteOf(value[3]))), 6)
    \o (IF alpha.given /\ alpha.v < Scale
        THEN padStart(toString16(ByteOf(alpha.v)), 2)
        ELSE <<>>)

\* the text between the parentheses, the alpha suffix included
formatChannels(space, value, alpha, precision) ==
    CHOOSE it \in {
        (IF space = "rgb"
         THEN NumberString(ByteOf(value[1]), 0) \o <<" ">>
              \o NumberString(ByteOf(value[2]), 0) \o <<" ">>
              \o NumberString(ByteOf(value[3]), 0)
         ELSE IF space \in {"hsl", "hwb"}
         THEN n[1] \o Spell.deg \o <<" ">>
              \o NumberString(roundTo(value[2] * 100, Scale, precision), precision)
              \o <<"%", " ">>
              \o NumberString(roundTo(value[3] * 100, Scale, precision), precision)
              \o <<"%">>
         ELSE IF space \in {"lab", "lch", "oklab", "oklch"}
         THEN NumberString(roundTo(value[1] * 100, Scale, precision), precision)
              \o <<"%", " ">> \o n[2] \o <<" ">> \o n[3]
              \o (IF space \in {"lch", "oklch"} THEN Spell.deg ELSE <<>>)
         ELSE n[1] \o <<" ">> \o n[2] \o <<" ">> \o n[3])
        \o (IF alpha.given /\ alpha.v < Scale
            THEN <<" ", "/", " ">>
                 \o NumberString(roundTo(alpha.v, Scale, precision), precision)
            ELSE <<>>)
        : n \in {[i \in 1..3 |->
                    NumberString(roundTo(value[i], Scale, precision), precision)]}} : TRUE

\* a formatCss that takes the colour's alpha field when no alpha argument is
\* given
formatCssOwnAlpha(h, color, alpha, asHex, precision) ==
    CHOOSE it \in {
        IF asHex /\ color.space = "rgb"
        THEN formatHex(h[color.value], a)
        ELSE (IF color.space \in {"rgb", "hsl", "hwb", "lab", "lch", "oklab", "oklch"}
              THEN Spell[color.space] \o <<"(">>
              ELSE Spell.color \o <<"(">>
                   \o (IF color.space = "lrgb" THEN Spell["srgb-linear"]
                       ELSE IF color.space = "xyz65" THEN Spell["xyz-d65"]
                       ELSE IF color.space = "xyz50" THEN Spell["xyz-d50"]
                       ELSE Spell[color.space])
                   \o <<" ">>)
             \o formatChannels(color.space, h[color.value], a, precision)
             \o <<")">>
        : a \in {IF alpha.given THEN alpha ELSE Given(color.alpha)}} : TRUE

\* formatCss(color, alpha, asHex, precision) over the heap h
formatCss(h, color, alpha, asHex, precision) ==
    IF asHex /\ color.space = "rgb"
    THEN formatHex(h[color.value], alpha)
    ELSE (IF color.space \in {"rgb", "hsl", "hwb", "lab", "lch", "oklab", "oklch"}
          THEN Spell[color.space] \o <<"(">>
          ELSE Spell.color \o <<"(">>
               \o (IF color.space = "lrgb" THEN Spell["srgb-linear"]
                   ELSE IF color.space = "xyz65" THEN Spell["xyz-d65"]
                   ELSE IF color.space = "xyz50" THEN Spell["xyz-d50"]
                   ELSE Spell[color.space])
               \o <<" ">>)
         \o formatChannels(color.space, h[color.value], alpha, precision)
         \o <<")">>

----------------------------------------------------------------------------
(* SpecFormat: the caller makes a colour, formats it and parses the text *)

\* calls per run
FormatCalls == 3

\* channel values: negative, zero, one step of the grid, a third, one, a
\* value above the range of every space, and the largest hue
FormatValues ==
    {-(Scale \div 2), 0, 1, Scale \div 3, Scale, 123 * Scale + 45, 360 * Scale - 1}

\* the alpha arguments: none, a half, one
FormatAlphas == {Undefined, Given(Scale \div 2), Given(Scale)}

\* the precision arguments; 2 is the default
Precisions == {1, 2}

\* the alpha fields of the colours: a quarter, and one, the default
ColourAlphas == {Scale \div 4, Scale}

FormatCreateColor ==
    /\ last.calls < FormatCalls
    /\ colors = <<>>
    /\ \E space \in Spaces, v1, v2, v3 \in FormatValues, a \in ColourAlphas :
          \E c \in {createColor(Machine, space, <<v1, v2, v3>>, a)} :
             Return(c.st, held, <<c.color>>, "createColor", NoArgs, c.color.value)

FormatCss ==
    /\ last.calls < FormatCalls
    /\ last.op = "createColor"
    /\ \E alpha \in FormatAlphas, asHex \in BOOLEAN, precision \in Precisions :
          Return(Machine, held, colors, "formatCss",
                 [css       |-> formatCss(heap, colors[1], alpha, asHex, precision),
                  alpha     |-> alpha,
                  asHex     |-> asHex,
                  precision |-> precision,
                  raised    |-> FALSE],
                 colors[1].value)

\* the text formatCss returned is parsed; a hex text with a sign is left
\* alone, parseInt16 drawing no sign
FormatParseColor ==
    /\ last.calls < FormatCalls
    /\ last.op = "formatCss"
    /\ "-" \notin Range(last.args.css) \/ ~IsHexNotation(last.args.css)
    /\ \E c \in {parseColor(Machine, last.args.css)} :
          Return(c.st, held,
                 IF c.raised THEN colors ELSE Append(colors, c.color),
                 "parseColor", [last.args EXCEPT !.raised = c.raised], c.color.value)

NextFormat ==
    \/ FormatCreateColor
    \/ FormatCss
    \/ FormatParseColor

SpecFormat == Init /\ [][NextFormat]_vars

\* the index of the hue channel of a space, 0 when it has none
HueIndex(space) ==
    IF space \in {"hsl", "hsv", "hwb"} THEN 1
    ELSE IF space \in {"lch", "oklch"} THEN 3
    ELSE 0

\* p and x differ by at most 1e-2, as hues modulo 360 when circular
Within(p, x, circular) ==
    IF circular
    THEN \E k \in {-1, 0, 1} : Abs(p - x + k * 360 * Scale) * 100 <= Scale
    ELSE Abs(p - x) * 100 <= Scale

\* formatCss was called with its defaults for asHex and precision, and the
\* text was parsed
ParsedDefaultFormat ==
    /\ last.op = "parseColor"
    /\ last.prev.op = "formatCss"
    /\ ~last.args.asHex
    /\ last.args.precision = 2

\* C14: for every registered space and every colour x in it,
\* parseColor(formatCss(x)) has the space tag of x and each of its three
\* channels within 1e-2 of x's channel, hues compared modulo 360.
ParseUndoesFormat ==
    ParsedDefaultFormat
    => /\ ~last.args.raised
       /\ Len(colors) = 2
       /\ colors[2].space = colors[1].space
       /\ \A i \in 1..3 :
             Within(heap[colors[2].value][i], heap[colors[1].value][i],
                    i = HueIndex(colors[1].space))

\* a lab colour with a negative channel and a fraction went through the
\* text and came back
LabParsedBack ==
    /\ ParsedDefaultFormat
    /\ Len(colors) = 2
    /\ colors[1].space = "lab"
    /\ heap[colors[1].value] = <<Scale \div 3, -(Scale \div 2), 123 * Scale + 45>>
    /\ colors[2].value # colors[1].value

----------------------------------------------------------------------------
(* gamut.ts: clampColor.  The channels it reads and writes are the 32-bit
   floats of a Float32Array.  In this section a channel is counted in steps
   of 2 ^ -FractionBits, and a store rounds to the 24 significant bits a
   32-bit float keeps. *)

\* binary digits after the point
FractionBits == 18

\* the number one, in steps
One == 2 ^ FractionBits

\* the position of the leading bit of m, m >= 1
Exponent(m) == CHOOSE e \in 0..30 : m \div (2 ^ e) = 1

\* m rounded to a multiple of q, ties to the even multiple
RoundToStep(m, q) ==
    IF 2 * (m % q) > q \/ (2 * (m % q) = q /\ (m \div q) % 2 = 1)
    THEN (m \div q + 1) * q
    ELSE (m \div q) * q

\* the value a Float32Array slot holds after n is stored into it
Fround(n) ==
    IF Abs(n) < 2 ^ 24 THEN n
    ELSE IF n < 0 THEN -RoundToStep(-n, 2 ^ (Exponent(-n) - 23))
    ELSE RoundToStep(n, 2 ^ (Exponent(n) - 23))

\* [min, max] per channel; a max of 360 marks a circular channel.  hsv has
\* no row.
CLAMP_BOUNDS ==
    [rgb   |-> <<0, One, 0, One, 0, One>>,
     lrgb  |-> <<0, One, 0, One, 0, One>>,
     hsl   |-> <<0, 360 * One, 0, One, 0, One>>,
     hwb   |-> <<0, 360 * One, 0, One, 0, One>>,
     lab   |-> <<0, 100 * One, -128 * One, 128 * One, -128 * One, 128 * One>>,
     lch   |-> <<0, 100 * One, 0, 150 * One, 0, 360 * One>>,
     oklab |-> <<0, One, -RoundDiv(4 * One, 10), RoundDiv(4 * One, 10),
                 -RoundDiv(4 * One, 10), RoundDiv(4 * One, 10)>>,
     oklch |-> <<0, One, 0, RoundDiv(4 * One, 10), 0, 360 * One>>,
     xyz50 |-> <<0, One, 0, One, 0, One>>,
     xyz65 |-> <<0, One, 0, One, 0, One>>]

\* the body of the loop for one channel: the value before it is stored
ClampChannel(val, min, max) ==
    IF max = 360 * One
    THEN (IF JsMod(val, 360 * One) < 0
          THEN JsMod(val, 360 * One) + 360 * One
          ELSE JsMod(val, 360 * One))
    ELSE IF val < min THEN min
    ELSE IF val > max THEN max
    ELSE val

\* the three channels clampColor stores
ClampedChannels(space, value) ==
    [i \in 1..3 |-> Fround(ClampChannel(value[i],
                                        CLAMP_BOUNDS[space][2 * i - 1],
                                        CLAMP_BOUNDS[space][2 * i]))]

\* a clampColor that writes into color.value whatever mutate is
clampColorInPlace(st, color, mutate) ==
    IF color.space \notin DOMAIN CLAMP_BOUNDS
    THEN [st |-> st, color |-> color, same |-> mutate]
    ELSE [st    |-> [st EXCEPT !.heap[color.value] =
                                  ClampedChannels(color.space, st.heap[color.value])],
          color |-> color,
          same  |-> mutate]

\* clampColor returns [st, color, same]: same is TRUE when the object
\* returned is the object passed in
clampColor(st, color, mutate) ==
    IF color.space \notin DOMAIN CLAMP_BOUNDS
    THEN [st |-> st, color |-> color, same |-> mutate]
    ELSE CHOOSE it \in {
             [st    |-> [c.st EXCEPT !.heap[c.buf] =
                                        ClampedChannels(color.space, st.heap[color.value])],
              color |-> [color EXCEPT !.value = c.buf],
              same  |-> mutate]
             : c \in {IF mutate THEN [st |-> st, buf |-> color.value]
                      ELSE createMatrix(st)}} : TRUE

\* the default tolerance of checkGamut, 0.0001
Tolerance == RoundDiv(One, 10000)

\* checkGamut(color): FALSE when a channel that is not circular lies outside
\* [min - tolerance, max + tolerance], TRUE for a space without a bounds row
checkGamut(st, color) ==
    IF color.space \notin DOMAIN CLAMP_BOUNDS
    THEN TRUE
    ELSE \A i \in 1..3 :
            \/ CLAMP_BOUNDS[color.space][2 * i] = 360 * One
            \/ ~(\/ st.heap[color.value][i] < CLAMP_BOUNDS[color.space][2 * i - 1] - Tolerance
                 \/ st.heap[color.value][i] > CLAMP_BOUNDS[color.space][2 * i] + Tolerance)

----------------------------------------------------------------------------
(* SpecClamp: the caller makes a colour, clamps it and drops what it holds *)

\* calls per run
ClampCalls == 3

\* channel values, in steps: the smallest negative number, zero, a half,
\* two, and hues a turn below and a turn above the range
ClampValues == {-1, 0, One \div 2, 2 * One, -40 * One, 400 * One}

\* the first call makes the colour
ClampCreateColor ==
    /\ last.calls = 0
    /\ \E space \in Spaces \cup {"unknown"}, v1, v2, v3 \in ClampValues :
          \E c \in {createColor(Machine, space, <<v1, v2, v3>>, One)} :
             Return(c.st, held, <<c.color>>, "createColor", NoArgs, c.color.value)

ClampColor ==
    /\ last.calls < ClampCalls
    /\ Len(colors) = 1
    /\ \E mutate \in BOOLEAN :
          \E c \in {clampColor(Machine, colors[1], mutate)} :
             Return(c.st, held,
                    IF c.same THEN colors ELSE Append(colors, c.color),
                    "clampColor", [mutate |-> mutate, same |-> c.same], c.color.value)

ClampDropColor ==
    /\ last.calls < ClampCalls
    /\ \E i \in DOMAIN colors :
          \E st \in {dropColor(Machine, colors[i])} :
             Return(st, held, RemoveAt(colors, i), "dropColor", NoArgs, colors[i].value)

CheckGamut ==
    /\ last.calls < ClampCalls
    /\ \E i \in DOMAIN colors :
          Return(Machine, held, colors, "checkGamut",
                 [i |-> i, inGamut |-> checkGamut(Machine, colors[i])], colors[i].value)

NextClamp ==
    \/ ClampCreateColor
    \/ ClampColor
    \/ ClampDropColor
    \/ CheckGamut

SpecClamp == Init /\ [][NextClamp]_vars

\* the colour the last clampColor call returned
Clamped == colors[Len(colors)]

\* clampColor has just returned a colour of a space with a bounds row
ClampedWithBounds ==
    /\ last.op = "clampColor"
    /\ Clamped.space \in DOMAIN CLAMP_BOUNDS

\* C15: for every space with a bounds row and every colour x,
\* clampColor(clampColor(x)) equals clampColor(x) channel for channel, every
\* circular channel of clampColor(x) lies in [0, 360) and every other
\* channel lies within its [min, max].
ClampIdempotentInRange ==
    ClampedWithBounds
    => /\ clampColor(Machine, Clamped, TRUE).st.heap[Clamped.value] = heap[Clamped.value]
       /\ \A i \in 1..3 :
             IF CLAMP_BOUNDS[Clamped.space][2 * i] = 360 * One
             THEN 0 <= heap[Clamped.value][i] /\ heap[Clamped.value][i] < 360 * One
             ELSE /\ CLAMP_BOUNDS[Clamped.space][2 * i - 1] <= heap[Clamped.value][i]
                  /\ heap[Clamped.value][i] <= CLAMP_BOUNDS[Clamped.space][2 * i]

\* the buffers acquired during the last call
Acquired == {last.log[i].dst : i \in {j \in DOMAIN last.log : last.log[j].ev = "createMatrix"}}

\* the colour the last clampColor call was given
Unclamped == last.pre.colors[1]

\* C16: clampColor(color, true) returns the same object and writes the
\* clamped channels into color.value, acquiring no buffer;
\* clampColor(color, false) leaves color.value as it was and returns another
\* object whose value is a newly acquired buffer; for a space without a
\* bounds row no channel changes, the same object is returned when mutate is
\* true and a new object sharing the value buffer when it is false.
ClampColorFrame ==
    last.op = "clampColor"
    => IF Unclamped.space \in DOMAIN CLAMP_BOUNDS
       THEN IF last.args.mutate
            THEN /\ last.args.same
                 /\ colors = last.pre.colors
                 /\ Acquired = {}
                 /\ heap[Unclamped.value] =
                       ClampedChannels(Unclamped.space, last.pre.heap[Unclamped.value])
            ELSE /\ ~last.args.same
                 /\ colors = Append(last.pre.colors, Clamped)
                 /\ heap[Unclamped.value] = last.pre.heap[Unclamped.value]
                 /\ Clamped.value # Unclamped.value
                 /\ Acquired = {Clamped.value}
                 /\ heap[Clamped.value] =
                       ClampedChannels(Unclamped.space, last.pre.heap[Unclamped.value])
       ELSE /\ Acquired = {}
            /\ heap[Unclamped.value] = last.pre.heap[Unclamped.value]
            /\ Clamped.value = Unclamped.value
            /\ last.args.same = last.args.mutate
            /\ IF last.args.mutate
               THEN colors = last.pre.colors
               ELSE colors = Append(last.pre.colors, Unclamped)

\* an rgb colour out of range was clamped into a second buffer
ClampedIntoNewBuffer ==
    /\ last.op = "clampColor"
    /\ ~last.args.mutate
    /\ Unclamped.space = "rgb"
    /\ Len(colors) = 2
    /\ heap[colors[1].value] = <<2 * One, -1, One \div 2>>
    /\ heap[colors[2].value] = <<One, 0, One \div 2>>

----------------------------------------------------------------------------
(* SpecMix: the caller makes two colours of one space and mixes them *)

\* calls per run
MixCalls == 3

\* spaces with a hue at index 0, with a hue at index 2, and without a hue
MixSpaces == {"hsl", "hwb", "lch", "oklch", "rgb", "lab"}

\* hues in [0, 360): zero, a quarter turn, three quarters, and the last
\* value below a full turn
MixHues == {0, 90 * Scale, 270 * Scale, 360 * Scale - 1}

\* the other channels
MixLevels == {0, Scale}

\* the weights: below zero, zero, a quarter, a half, one, above one
MixWeights == {-Scale, 0, Scale \div 4, Scale \div 2, Scale, 2 * Scale}

\* the channels of a colour of the space, hue where the space has one
MixValues(space) ==
    IF space \in {"hsl", "hwb"}
    THEN {<<h, a, b>> : h \in MixHues, a \in MixLevels, b \in MixLevels}
    ELSE IF space \in {"lch", "oklch"}
    THEN {<<a, b, h>> : h \in MixHues, a \in MixLevels, b \in MixLevels}
    ELSE {<<a, b, c>> : a \in MixLevels, b \in MixLevels, c \in MixLevels \cup {-Scale}}

MixCreateColor ==
    /\ last.calls < MixCalls
    /\ Len(colors) < 2
    /\ \E space \in (IF colors = <<>> THEN MixSpaces ELSE {colors[1].space}) :
          \E values \in MixValues(space), alpha \in {Scale \div 2, Scale} :
             \E c \in {createColor(Machine, space, values, alpha)} :
                Return(c.st, held, Append(colors, c.color), "createColor", NoArgs,
                       c.color.value)

MixColor ==
    /\ last.calls < MixCalls
    /\ Len(colors) = 2
    /\ \E t \in MixWeights :
          \E c \in {mixColor(Machine, colors[1], colors[2], t)} :
             Return(c.st, held, Append(colors, c.color), "mixColor", [t |-> t],
                    c.color.value)

NextMix ==
    \/ MixCreateColor
    \/ MixColor

SpecMix == Init /\ [][NextMix]_vars

\* t clamped to [0, 1]
Weight == Max2(0, Min2(Scale, last.args.t))

\* v is the number exact / Scale^2 rounded to the grid
Rounds(v, exact) == 2 * Abs(v * Scale - exact) <= Scale

\* v is start + w * (end - start)
Linear(v, s, e) == Rounds(v, s * Scale + Weight * (e - s))

\* v is (start + w * d) mod 360 for a signed hue difference d of smallest
\* magnitude, and lies in [0, 360)
ShortestArc(v, s, e) ==
    /\ \E d \in {e - s - 360 * Scale, e - s, e - s + 360 * Scale} :
          /\ Abs(d) <= 180 * Scale
          /\ Rounds(v, (s * Scale + Weight * d) % (360 * Scale * Scale))
    /\ 0 <= v
    /\ v < 360 * Scale

\* C17: for colours of a space with a hue, hues in [0, 360), and any t, the
\* hue of mixColor is (start + w * d) mod 360, w being t clamped to [0, 1]
\* and d the signed hue difference of smallest magnitude, and lies in
\* [0, 360); every other channel and alpha are start + w * (end - start);
\* in a space without a hue all three channels are.
MixTakesShortestArc ==
    last.op = "mixColor"
    => /\ \A c \in 1..3 :
             IF c = HueIndex(colors[1].space) /\ colors[1].space # "hsv"
             THEN ShortestArc(heap[colors[3].value][c],
                              heap[colors[1].value][c], heap[colors[2].value][c])
             ELSE Linear(heap[colors[3].value][c],
                         heap[colors[1].value][c], heap[colors[2].value][c])
       /\ Linear(colors[3].alpha, colors[1].alpha, colors[2].alpha)

----------------------------------------------------------------------------
(* SpecScales: the caller makes the stops and asks for a scale over them *)

\* calls per run
ScalesCalls == 4

\* stops at most
MaxStops == 3

\* the space of the stops: one with a hue and one without
ScaleSpaces == {"hsl", "rgb"}

ScaleStopValues(space) ==
    IF space = "hsl"
    THEN {<<0, Scale, Scale \div 2>>, <<120 * Scale, Scale, Scale \div 2>>,
          <<350 * Scale, Scale \div 2, Scale>>}
    ELSE {<<0, 0, 0>>, <<Scale, 0, 0>>, <<Scale, Scale, Scale>>}

\* the numbers of steps asked for
ScaleStepChoices == {-1, 0, 1, 2, 3, 4}

ScalesCreateColor ==
    /\ last.calls < ScalesCalls
    /\ Len(colors) < MaxStops
    /\ last.op # "createScales"
    /\ \E space \in (IF colors = <<>> THEN ScaleSpaces ELSE {colors[1].space}) :
          \E values \in ScaleStopValues(space), alpha \in {Scale \div 2, Scale} :
             \E c \in {createColor(Machine, space, values, alpha)} :
                Return(c.st, held, Append(colors, c.color), "createColor", NoArgs,
                       c.color.value)

\* createScales(stops, steps) over all the colours made; the scale is put
\* after the stops
CreateScales ==
    /\ last.calls < ScalesCalls
    /\ last.op # "createScales"
    /\ \E steps \in ScaleStepChoices :
          \E c \in {createScales(Machine, colors, steps)} :
             Return(c.st, held, colors \o c.colors, "createScales",
                    [steps |-> steps, stops |-> Len(colors)], 0)

NextScales ==
    \/ ScalesCreateColor
    \/ CreateScales

SpecScales == Init /\ [][NextScales]_vars

\* the stops and the scale of the last createScales call
Stops == SubSeq(colors, 1, last.args.stops)

Produced == SubSeq(colors, last.args.stops + 1, Len(colors))

\* colour c has the space, the channels and the alpha of colour d
SameColour(c, d) ==
    /\ c.space = d.space
    /\ c.alpha = d.alpha
    /\ heap[c.value] = heap[d.value]

\* colour c is what mixColor(start, end, f) returns
IsMixOf(c, start, end, f) ==
    \E m \in {mixColor(Machine, start, end, f)} :
       /\ c.space = m.color.space
       /\ c.alpha = m.color.alpha
       /\ heap[c.value] = m.st.heap[m.color.value]

\* k + f is the position i * (stops - 1) / (steps - 1), to the grid
AtPosition(k, f, i) ==
    2 * Abs((k * Scale + f) * (last.args.steps - 1) - i * (last.args.stops - 1) * Scale)
       <= Abs(last.args.steps - 1)

\* C18: with at least 2 stops and any steps >= 1 createScales returns
\* exactly steps colours, output i being mixColor(stops[k], stops[k + 1], f)
\* for a segment k and an offset f in [0, 1] taken from the position
\* i * (stops - 1) / (steps - 1), the first output equal to the first stop
\* and the last to the last stop; steps <= 0 returns an empty list; fewer
\* than 2 stops give one clone per stop, in a new buffer, whatever steps is.
ScaleCoversStops ==
    last.op = "createScales"
    => IF last.args.steps <= 0
       THEN Produced = <<>> /\ Acquired = {}
       ELSE IF last.args.stops < 2
       THEN /\ Len(Produced) = last.args.stops
            /\ \A i \in DOMAIN Produced :
                  /\ SameColour(Produced[i], Stops[i])
                  /\ Produced[i].value # Stops[i].value
                  /\ Produced[i].value \in Acquired
       ELSE /\ Len(Produced) = last.args.steps
            /\ \A i \in DOMAIN Produced :
                  \E k \in 0..(last.args.stops - 2), f \in 0..Scale :
                     /\ AtPosition(k, f, i - 1)
                     /\ IsMixOf(Produced[i], Stops[k + 1], Stops[k + 2], f)
            /\ SameColour(Produced[1], Stops[1])
            /\ SameColour(Produced[Len(Produced)], Stops[Len(Stops)])

----------------------------------------------------------------------------
(* SpecMatch: the caller makes a colour and a background and asks for the
   colour at a target contrast *)

\* calls per run
MatchCalls == 3

\* the target contrasts asked for, in percent: two within reach of some
\* lightness, and one above every contrast there is
MatchTargets == {30 * Scale, 60 * Scale, 150 * Scale}

\* white and black, with the colours of UtilColours
MatchColours ==
    UtilColours \cup {[space |-> "rgb", values |-> <<Scale, Scale, Scale>>],
                      [space |-> "rgb", values |-> <<0, 0, 0>>]}

MatchCreateColor ==
    /\ last.calls < MatchCalls
    /\ Len(colors) < 2
    /\ \E u \in MatchColours, alpha \in {Scale \div 2, Scale} :
          \E c \in {createColor(Machine, u.space, u.values, alpha)} :
             Return(c.st, held, Append(colors, c.color), "createColor",
                    [space |-> u.space], c.color.value)

\* matchContrast(colors[1], colors[2], target)
MatchContrast ==
    /\ last.calls < MatchCalls
    /\ Len(colors) = 2
    /\ \E target \in MatchTargets :
          \E c \in {matchContrast(Machine, colors[1], colors[2], target)} :
             Return(c.st, held, Append(colors, c.color), "matchContrast",
                    [target |-> target], c.color.value)

NextMatch ==
    \/ MatchCreateColor
    \/ MatchContrast

SpecMatch == Init /\ [][NextMatch]_vars

\* the channels of a colour in oklch
InOklch(color) ==
    CHOOSE it \in {CHOOSE it \in {
        s.heap[m.buf]
        : s \in {convertColor(m.st, color.value, m.buf, color.space, "oklch")}} : TRUE
        : m \in {createMatrix(Machine)}} : TRUE

\* the channels of the oklch colour (l, c, h) in a space
OutOfOklch(lch, space) ==
    CHOOSE it \in {CHOOSE it \in {CHOOSE it \in {
        s.heap[r.buf]
        : s \in {convertColor(r.st, c.color.value, r.buf, "oklch", space)}} : TRUE
        : r \in {createMatrix(c.st)}} : TRUE
        : c \in {createColor(Machine, "oklch", lch, Scale)}} : TRUE

\* the luminance of the background
BackgroundY == getLuminanceD65(Machine, colors[2]).y

\* the result is the colour at some lightness of the interval searched,
\* with the chroma and the hue of the colour given
AtLightnessSearched(lch) ==
    \E l \in (IF 2 * BackgroundY < Scale THEN lch[1]..Scale ELSE 0..lch[1]) :
       heap[colors[3].value] = OutOfOklch(<<l, lch[2], lch[3]>>, colors[1].space)

\* the conversions out of oklch in the last call: one for each luminance
\* the loop measures and one for the colour returned
OutOfOklchRuns ==
    Cardinality({i \in DOMAIN last.log : /\ last.log[i].ev = "adapter"
                                          /\ last.log[i].name = "oklchToOklab"})

\* the contrast the claim lets the result fall short by.  The tests accept
\* one percent; on the grid of the model a contrast measured again on the
\* converted colour moves by up to five, so six are accepted here.
ContrastSlack == 6 * Scale

\* C19: matchContrast(color, bg, target) runs exactly 12 bisection steps
\* over the Oklch lightness, chroma and hue fixed, searching [L0, 1] when
\* the luminance of bg is below 0.5 and [0, L0] otherwise, and returns, in
\* the space of color and with its alpha, a colour at the best lightness
\* found whose absolute contrast against bg is at least target, less the
\* slack accepted.
MatchReachesTarget ==
    last.op = "matchContrast"
    => /\ colors[3].space = colors[1].space
       /\ colors[3].alpha = colors[1].alpha
       /\ OutOfOklchRuns = 12 + 1
       /\ AtLightnessSearched(InOklch(colors[1]))
       /\ Abs(checkContrast(Machine, colors[3], colors[2]).y)
             >= last.args.target - ContrastSlack

----------------------------------------------------------------------------
(* utils/picker.ts.  A subscriber is known by its name; calling it leaves a
   "callback" event in the log. *)

\* toPicker returns [st, val]
toPicker(st, color) ==
    CHOOSE it \in {CHOOSE it \in {
        [st  |-> dropMatrix(s1, hsv.buf),
         val |-> [h |-> Rd(s1, hsv.buf, 0), s |-> Rd(s1, hsv.buf, 1),
                  v |-> Rd(s1, hsv.buf, 2), a |-> color.alpha]]
        : s1 \in {convertColor(hsv.st, color.value, hsv.buf, color.space, "hsv")}} : TRUE
        : hsv \in {createMatrix(st)}} : TRUE

\* fromPicker returns [st, color]
fromPicker(st, val, space) ==
    CHOOSE it \in {CHOOSE it \in {CHOOSE it \in {
        [st    |-> dropMatrix(s2, hsv.buf),
         color |-> [space |-> space, value |-> dest.buf, alpha |-> val.a]]
        : s2 \in {convertColor(dest.st, hsv.buf, dest.buf, "hsv", space)}} : TRUE
        : dest \in {createMatrix([hsv.st EXCEPT !.heap[hsv.buf] = <<val.h, val.s, val.v>>])}} : TRUE
        : hsv \in {createMatrix(st)}} : TRUE

\* createPicker(init, target), target "none" when left out; returns
\* [st, picker]
createPicker(st, init, target) ==
    CHOOSE it \in {
        [st     |-> v.st,
         picker |-> [NoPicker EXCEPT !.made = TRUE,
                                     !.val = v.val,
                                     !.space = IF target = "none" THEN init.space ELSE target]]
        : v \in {toPicker(st, init)}} : TRUE

RECURSIVE notify(_, _)

\* the fields after update(x, y, type)
Updated(val, x, y, type) ==
    IF type = "sv" THEN [val EXCEPT !.s = x, !.v = Scale - y]
    ELSE IF type = "h" THEN [val EXCEPT !.h = x * 360]
    ELSE IF type = "a" THEN [val EXCEPT !.a = x]
    ELSE val

\* an update that notifies only when a field has changed
updateIfChanged(st, pk, x, y, type) ==
    IF Updated(pk.val, x, y, type) = pk.val
    THEN [st |-> st, picker |-> pk]
    ELSE notify(st, [pk EXCEPT !.val = Updated(pk.val, x, y, type)])

\* update returns [st, picker], the picker as the subscribers left it
update(st, pk, x, y, type) ==
    notify(st, [pk EXCEPT !.val = Updated(pk.val, x, y, type)])

\* an assign that notifies whatever the colour is
assignAlways(st, pk, next) ==
    CHOOSE it \in {
        notify(nextVal.st, [pk EXCEPT !.val = nextVal.val])
        : nextVal \in {toPicker(st, next)}} : TRUE

\* assign returns [st, picker]
assign(st, pk, next) ==
    CHOOSE it \in {
        IF nextVal.val = pk.val
        THEN [st |-> nextVal.st, picker |-> pk]
        ELSE notify(nextVal.st, [pk EXCEPT !.val = nextVal.val])
        : nextVal \in {toPicker(st, next)}} : TRUE

\* the hue the callback "r" asks for: x = 0.5 of update(x, y, 'h')
ReentrantHue == (Scale \div 2) * 360

\* fn(snap, color), the n-th event of the log being the notification the
\* snapshot belongs to: the callback "r" calls picker.update(0.5, 0, 'h')
\* from inside unless the snapshot has that hue, every other callback
\* returns at once.  Returns [st, picker].
CallBack(st, pk, fn, snap, color, n) ==
    CHOOSE it \in {
        IF fn = "r" /\ snap.h # ReentrantHue
        THEN update(s, pk, Scale \div 2, 0, "h")
        ELSE [st |-> s, picker |-> pk]
        : s \in {[st EXCEPT !.log = Append(st.log, Event("callback", fn, n, color.value))]}}
        : TRUE

RECURSIVE CallSubscribers(_, _, _, _, _, _)
\* for (const fn of subs) fn(snap, color), from the i-th subscriber on
CallSubscribers(st, pk, i, snap, color, n) ==
    IF i > Len(pk.subs) THEN [st |-> st, picker |-> pk]
    ELSE CHOOSE it \in {
             CallSubscribers(r.st, r.picker, i + 1, snap, color, n)
             : r \in {CallBack(st, pk, pk.subs[i], snap, color, n)}} : TRUE

\* a notify that releases the colour's buffer before it calls the subscribers
notifyReleaseFirst(st, pk) ==
    CHOOSE it \in {CHOOSE it \in {
        CallSubscribers(dropMatrix(s, c.color.value), pk, 1, pk.val, c.color, Len(s.log))
        : s \in {[c.st EXCEPT !.log = Append(c.st.log,
                                             Event("notify", "snap", pk.val, c.color.value))]}}
        : TRUE
        : c \in {fromPicker(st, pk.val, pk.space)}} : TRUE

\* notify: the colour is built, snap = {...val} is taken, both are handed to
\* every subscriber and the colour's buffer is released
notify(st, pk) ==
    CHOOSE it \in {CHOOSE it \in {CHOOSE it \in {
        [st |-> dropMatrix(r.st, c.color.value), picker |-> r.picker]
        : r \in {CallSubscribers(s, pk, 1, pk.val, c.color, Len(s.log))}} : TRUE
        : s \in {[c.st EXCEPT !.log = Append(c.st.log,
                                             Event("notify", "snap", pk.val, c.color.value))]}}
        : TRUE
        : c \in {fromPicker(st, pk.val, pk.space)}} : TRUE

\* getSolid: fromPicker({ ...val, a: 1 }, space)
getSolid(st, pk) == fromPicker(st, [pk.val EXCEPT !.a = Scale], pk.space)

\* getColor: fromPicker(val, space)
getColor(st, pk) == fromPicker(st, pk.val, pk.space)

\* subs.add(fn)
subscribe(pk, fn) ==
    [pk EXCEPT !.subs = IF fn \in Range(pk.subs) THEN pk.subs ELSE Append(pk.subs, fn)]

\* the function subscribe returns: subs.delete(fn)
unsubscribe(pk, fn) ==
    [pk EXCEPT !.subs = SelectSeq(pk.subs, LAMBDA g : g # fn)]

----------------------------------------------------------------------------
(* SpecPicker: the caller makes a colour and a picker on it, subscribes and
   unsubscribes callbacks, and calls update and assign *)

\* calls per run
PickerCalls == 6

\* the callbacks of the caller
Callbacks == {"f", "g"}

\* the colours the picker is made on and assigned: red, an orange, and
\* white, which has no hue
PickerColours ==
    {[space |-> "hsv", values |-> <<0, Scale, Scale>>],
     [space |-> "rgb", values |-> Sample("rgb")],
     [space |-> "hsv", values |-> <<0, 0, Scale>>]}

\* the arguments of update: the last type is none of the three
UpdateTypes == {"sv", "h", "a", "invalid"}

PickerCreateColor ==
    /\ last.calls < PickerCalls
    /\ Len(colors) < MaxColors
    /\ \E u \in PickerColours :
          \E c \in {createColor(Machine, u.space, u.values, Scale)} :
             Return(c.st, held, Append(colors, c.color), "createColor", NoArgs,
                    c.color.value)

CreatePicker ==
    /\ last.calls < PickerCalls
    /\ ~picker.made
    /\ Len(colors) >= 1
    /\ \E target \in {"none", "rgb"} :
          \E c \in {createPicker(Machine, colors[1], target)} :
             ReturnWith(c.st, held, colors, "createPicker", [target |-> target], 0,
                        c.picker)

Subscribe ==
    /\ last.calls < PickerCalls
    /\ picker.made
    /\ \E fn \in Callbacks :
          ReturnWith(Machine, held, colors, "subscribe", [fn |-> fn], 0,
                     [subscribe(picker, fn) EXCEPT !.unsubs = @ \cup {fn},
                                                   !.dropped = @ \ {fn}])

\* the caller calls an unsubscribe function it holds; it may call it again
Unsubscribe ==
    /\ last.calls < PickerCalls
    /\ \E fn \in picker.unsubs :
          ReturnWith(Machine, held, colors, "unsubscribe", [fn |-> fn], 0,
                     [unsubscribe(picker, fn) EXCEPT !.cancelled = @ \cup {fn},
                                                     !.dropped = @ \cup {fn}])

Update ==
    /\ last.calls < PickerCalls
    /\ picker.made
    /\ \E x \in {0, Scale \div 2}, type \in UpdateTypes :
          \E c \in {update(Machine, picker, x, Scale \div 4, type)} :
             ReturnWith(c.st, held, colors, "update", [x |-> x, type |-> type], 0,
                        c.picker)

\* assign(colors[i]); before is the state the picker had
Assign ==
    /\ last.calls < PickerCalls
    /\ picker.made
    /\ \E i \in DOMAIN colors :
          \E c \in {assign(Machine, picker, colors[i])} :
             ReturnWith(c.st, held, colors, "assign", [i |-> i, before |-> picker.val], 0,
                        c.picker)

\* the caller keeps the colour getSolid returns
GetSolid ==
    /\ last.calls < PickerCalls
    /\ picker.made
    /\ Len(colors) < MaxColors
    /\ \E c \in {getSolid(Machine, picker)} :
          Return(c.st, held, Append(colors, c.color), "getSolid", NoArgs, c.color.value)

\* the caller keeps the colour getColor returns
GetColor ==
    /\ last.calls < PickerCalls
    /\ picker.made
    /\ Len(colors) < MaxColors
    /\ \E c \in {getColor(Machine, picker)} :
          Return(c.st, held, Append(colors, c.color), "getColor", NoArgs, c.color.value)

NextPicker ==
    \/ PickerCreateColor
    \/ CreatePicker
    \/ Subscribe
    \/ Unsubscribe
    \/ Update
    \/ Assign
    \/ GetSolid
    \/ GetColor

SpecPicker == Init /\ [][NextPicker]_vars

\* how often the last call invoked fn
Invocations(fn) ==
    Cardinality({i \in DOMAIN last.log : /\ last.log[i].ev = "callback"
                                          /\ last.log[i].name = fn})

\* the callbacks subscribed and not unsubscribed since
Subscribed == picker.unsubs \ picker.dropped

\* each update invokes every callback subscribed exactly once, whatever its
\* type, and no other callback
UpdateNotifiesAll ==
    last.op = "update"
    => \A fn \in Callbacks : Invocations(fn) = IF fn \in Subscribed THEN 1 ELSE 0

\* C20, as stated: each update invokes every callback subscribed exactly
\* once, and a callback whose unsubscribe function has been called is
\* invoked by no later update or assign.
CancelledNeverNotified ==
    /\ UpdateNotifiesAll
    /\ last.op \in {"update", "assign"}
       => \A fn \in picker.cancelled : Invocations(fn) = 0

\* C20, amended: each update invokes every callback subscribed exactly once,
\* also when its type is none of 'sv', 'h', 'a' and no field changes, and a
\* callback whose unsubscribe function has been called is invoked by no later
\* update or assign until it is subscribed again.
DroppedNeverNotified ==
    /\ UpdateNotifiesAll
    /\ last.op \in {"update", "assign"}
       => \A fn \in picker.dropped : Invocations(fn) = 0

\* an update of no known type changed nothing and notified f, g having
\* been unsubscribed
InvalidUpdateNotified ==
    /\ last.op = "update"
    /\ last.args.type = "invalid"
    /\ picker.subs = <<"f">>
    /\ "g" \in picker.dropped
    /\ Invocations("f") = 1

\* the HSV-alpha of the colour the last assign was given
Assigned == toPicker(Machine, colors[last.args.i]).val

AssignedOtherColour ==
    /\ last.op = "assign"
    /\ Assigned # last.args.before
    /\ picker.subs = <<"f">>
    /\ Invocations("f") = 1

\* C22: assigning an achromatic colour (saturation 0) leaves the picker's hue
\* at the value it had before the assign, while saturation and brightness
\* take the assigned colour's values.
AchromaticAssignKeepsHue ==
    (last.op = "assign" /\ Assigned.s = 0)
    => /\ picker.val.h = last.args.before.h
       /\ picker.val.s = Assigned.s
       /\ picker.val.v = Assigned.v

----------------------------------------------------------------------------
(* SpecApply: the caller creates a colour and an output matrix and calls    *)
(* applyAdapter with chains of the routing tables on the colour's buffer.   *)

\* calls per run
ApplyCalls == 4

\* the chains of the routing tables
TableChains ==
    {TO_HUB[s] : s \in DOMAIN TO_HUB} \cup {FROM_HUB[s] : s \in DOMAIN FROM_HUB}
        \cup UNION {{DIRECT_HUB[a][b] : b \in DOMAIN DIRECT_HUB[a]} : a \in DOMAIN DIRECT_HUB}

\* the chains applied to a colour of a space: the empty chain and the table
\* chains whose first adapter reads the space
ChainsFor(space) ==
    {<<>>} \cup {chain \in TableChains : Len(chain) > 0 /\ AdapterType[chain[1]][1] = space}

ApplyCreateColor ==
    /\ last.calls < ApplyCalls
    /\ colors = <<>>
    /\ \E space \in Spaces :
          \E c \in {createColor(Machine, space, Sample(space), Scale)} :
             Return(c.st, held, <<c.color>>, "createColor", [space |-> space],
                    c.color.value)

ApplyCreateMatrix ==
    /\ last.calls < ApplyCalls
    /\ held = {}
    /\ \E c \in {createMatrix(Machine)} :
          Return(c.st, {c.buf}, colors, "createMatrix", NoArgs, c.buf)

\* the space a chain run on a colour of a space writes
ChainTarget(chain, space) ==
    IF chain = <<>> THEN space ELSE AdapterType[chain[Len(chain)]][2]

\* applyAdapter(chain, input, output) on the colour's buffer, in place or
\* into the output matrix; run in place, the caller re-tags the colour
ApplyAdapter ==
    /\ last.calls < ApplyCalls
    /\ colors # <<>>
    /\ \E chain \in ChainsFor(colors[1].space), output \in held \cup {colors[1].value} :
          \E st \in {applyAdapter(Machine, chain, colors[1].value, output)} :
             Return(st, held,
                    IF output = colors[1].value
                    THEN <<[colors[1] EXCEPT !.space = ChainTarget(chain, @)]>>
                    ELSE colors,
                    "applyAdapter",
                    [chain |-> chain, input |-> colors[1].value, output |-> output],
                    output)

NextApply ==
    \/ ApplyCreateColor
    \/ ApplyCreateMatrix
    \/ ApplyAdapter

SpecApply == Init /\ [][NextApply]_vars

\* the buffers acquired and not released by the first k events of a log
Outstanding(log, k) ==
    Cardinality({i \in 1..k : log[i].ev = "createMatrix"})
        - Cardinality({i \in 1..k : log[i].ev = "dropMatrix"})

\* the i-th event of the log is the call name(src, dst)
IsCall(log, i, name, src, dst) ==
    /\ log[i].ev = "adapter"
    /\ log[i].name = name
    /\ log[i].src = src
    /\ log[i].dst = dst

\* the events of applyAdapter on a chain of n >= 2 adapters: one acquire,
\* the n steps through the scratch buffer in chain order, one release
ThroughScratch(log, chain, input, output) ==
    LET n == Len(chain)
        scratch == log[1].dst
    IN  /\ Len(log) = n + 2
        /\ log[1].ev = "createMatrix"
        /\ scratch \notin {input, output}
        /\ IsCall(log, 2, chain[1], input, scratch)
        /\ \A i \in 2..(n - 1) : IsCall(log, i + 1, chain[i], scratch, scratch)
        /\ IsCall(log, n + 1, chain[n], scratch, output)
        /\ log[n + 2].ev = "dropMatrix"
        /\ log[n + 2].src = scratch

\* C23: applyAdapter acquires no buffer for a chain of length 0 or 1; for a
\* chain of length n >= 2 it acquires exactly one scratch buffer, runs step 1
\* input->scratch, steps 2..n-1 scratch->scratch and step n scratch->output
\* in chain order, and releases the scratch buffer exactly once before
\* returning; at most one scratch buffer is outstanding at any moment.
OneScratchPerChain ==
    last.op = "applyAdapter"
    => LET chain == last.args.chain
           log == last.log
       IN  /\ \A k \in 0..Len(log) : Outstanding(log, k) \in {0, 1}
           /\ Outstanding(log, Len(log)) = 0
           /\ Len(chain) = 0 => \A i \in DOMAIN log : log[i].ev = "set"
           /\ Len(chain) = 1
                 => log = <<Event("adapter", chain[1], last.args.input, last.args.output)>>
           /\ Len(chain) >= 2
                 => ThroughScratch(log, chain, last.args.input, last.args.output)

\* a chain of four adapters ran from the colour's buffer into another one
FourStepsThroughScratch ==
    /\ last.op = "applyAdapter"
    /\ Len(last.args.chain) = 4
    /\ last.args.input # last.args.output
    /\ Len(last.log) = 6

----------------------------------------------------------------------------
(* The routing tables read both ways, under SpecRoute *)

\* the adapter that undoes an adapter: yToX for xToY
Inverse(name) ==
    CHOOSE other \in Adapters :
        AdapterType[other] = <<AdapterType[name][2], AdapterType[name][1]>>

\* a chain reversed, each adapter replaced by its inverse
Inverted(chain) ==
    [i \in 1..Len(chain) |-> Inverse(chain[Len(chain) + 1 - i])]

\* the spaces that are no hub
NonHubSpaces == Spaces \ {"xyz50", "xyz65"}

\* C24: the direct map has an entry (a, b) exactly when it has (b, a);
\* NATIVE_HUB, TO_HUB and FROM_HUB have the same keys, the 9 spaces that are
\* no hub; every reverse chain is the forward chain reversed with each
\* adapter replaced by its inverse, so what a direct conversion from a to b
\* ran is undone step by step by the chain for (b, a).
TablesSymmetric ==
    /\ \A a, b \in Spaces : HasDirect(a, b) <=> HasDirect(b, a)
    /\ DOMAIN NATIVE_HUB = NonHubSpaces
    /\ DOMAIN TO_HUB = NonHubSpaces
    /\ DOMAIN FROM_HUB = NonHubSpaces
    /\ Cardinality(NonHubSpaces) = 9
    /\ \A s \in NonHubSpaces : FROM_HUB[s] = Inverted(TO_HUB[s])
    /\ \A a, b \in Spaces :
          HasDirect(a, b) => DIRECT_HUB[b][a] = Inverted(DIRECT_HUB[a][b])
    /\ (last.op = "convertColor" /\ HasDirect(last.args.from, last.args.to))
          => DIRECT_HUB[last.args.to][last.args.from] = Inverted(Trace)

\* hsl was converted to rgb by the two steps of the direct map
DirectChainRan ==
    /\ last.op = "convertColor"
    /\ last.args.from = "hsl"
    /\ last.args.to = "rgb"
    /\ Trace = <<"hslToHsv", "hsvToRgb">>
    /\ DIRECT_HUB["rgb"]["hsl"] = <<"rgbToHsv", "hsvToHsl">>

----------------------------------------------------------------------------
(* The free-list as a set of buffers, under SpecPool *)

\* no reference occurs twice in the sequence
NoRepeat(seq) == \A i, j \in DOMAIN seq : i # j => seq[i] # seq[j]

\* the buffers the caller held and the buffers of its colours before the
\* last call
OwnedBefore == last.pre.held \cup {last.pre.colors[i].value : i \in DOMAIN last.pre.colors}

\* the last call acquired a buffer
Acquiring == last.op \in {"createMatrix", "createColor"}

\* the last call released a buffer that was on the free-list already
ReleasedAgain ==
    /\ last.op \in {"dropMatrix", "dropColor"}
    /\ last.buf \in Range(last.pre.pool)

\* C25, as stated: after any sequence of createMatrix, dropMatrix, dropColor,
\* preallocatePool and clearPool calls the free-list never holds the same
\* buffer reference twice, and no buffer is handed out while a holder has it.
FreeListDistinct ==
    /\ NoRepeat(pool)
    /\ Acquiring => last.buf \notin OwnedBefore

\* C25, amended: a call leaves the free-list without a repeated reference
\* unless it releases a buffer that is on the free-list already, and a buffer
\* acquired from a free-list without repeats is no longer on it, so the next
\* acquire cannot return it again.
FreeListDistinctUnlessReleasedAgain ==
    /\ (NoRepeat(last.pre.pool) /\ ~ReleasedAgain) => NoRepeat(pool)
    /\ (Acquiring /\ NoRepeat(last.pre.pool))
          => last.buf \notin Range(pool)

\* a matrix was acquired from the free-list right after a colour was, with no
\* release between, and the two have different buffers
AcquiredTwiceFromPool ==
    /\ last.op = "createMatrix"
    /\ last.prev.op = "createColor"
    /\ last.log[1].name = "pool"
    /\ Len(colors) = 1
    /\ colors[1].value = last.prev.buf
    /\ last.buf # last.prev.buf
    /\ last.prev.buf \notin Range(pool)

----------------------------------------------------------------------------
(* SpecReentrant: as SpecPicker, with the callback "r", which calls update  *)
(* from inside, and the passive callback "g"                                *)

SubscribeReentrant ==
    /\ last.calls < PickerCalls
    /\ picker.made
    /\ \E fn \in {"r", "g"} :
          ReturnWith(Machine, held, colors, "subscribe", [fn |-> fn], 0,
                     [subscribe(picker, fn) EXCEPT !.unsubs = @ \cup {fn},
                                                   !.dropped = @ \ {fn}])

NextReentrant ==
    \/ PickerCreateColor
    \/ CreatePicker
    \/ SubscribeReentrant
    \/ Update
    \/ Assign

SpecReentrant == Init /\ [][NextReentrant]_vars

\* the places of the log where fn was called
CalledAt(fn) ==
    {i \in DOMAIN last.log : last.log[i].ev = "callback" /\ last.log[i].name = fn}

\* the snapshot fn was handed at place i of the log: that of the
\* notification the call belongs to
SnapAt(i) == last.log[last.log[i].src].src

\* the last place of a set of places
LastOf(places) == CHOOSE i \in places : \A j \in places : j <= i

\* C26: even when a subscriber calls update or assign from inside its
\* callback, every subscriber receives its notifications in the order in
\* which the state changes happened, and when the outermost update or assign
\* returns, the last value each subscriber received is the picker's state.
NotifiedInOrder ==
    last.op \in {"update", "assign"}
    => \A fn \in Range(picker.subs) :
          /\ \A i, j \in CalledAt(fn) : i < j => last.log[i].src <= last.log[j].src
          /\ CalledAt(fn) # {} => SnapAt(LastOf(CalledAt(fn))) = picker.val

----------------------------------------------------------------------------
(* The buffers of a notification and of getColor and getSolid, under        *)
(* SpecPicker                                                               *)

\* the places of a log where a buffer was acquired, and where it was released
AcquiredAt(log, b) == {i \in DOMAIN log : log[i].ev = "createMatrix" /\ log[i].dst = b}

ReleasedAt(log, b) == {i \in DOMAIN log : log[i].ev = "dropMatrix" /\ log[i].src = b}

\* the buffers a log acquires
AcquiredIn(log) == {log[i].dst : i \in {j \in DOMAIN log : log[j].ev = "createMatrix"}}

\* the notification at place n of the log: its colour's buffer was acquired
\* before and not released since, is none of the caller's, and is released
\* once, after every call of a subscriber that belongs to the notification
ColourLentOnce(log, n) ==
    LET b == log[n].dst
    IN  /\ b \notin OwnedBefore
        /\ \E i \in AcquiredAt(log, b) :
              /\ i < n
              /\ \A j \in ReleasedAt(log, b) : j < i \/ j > n
        /\ \E j \in ReleasedAt(log, b) :
              /\ j > n
              /\ \A k \in ReleasedAt(log, b) : k > n => k = j
              /\ \A k \in DOMAIN log :
                    (log[k].ev = "callback" /\ log[k].src = n) => k < j

\* C27: in a notification the colour handed to the subscribers is built on
\* one freshly acquired buffer, released exactly once, after the last
\* subscriber has returned and never before; the picker keeps no acquired
\* buffer once update or assign returns; the colours getColor and getSolid
\* return are never released by the picker and stay with the caller.
NotificationColourReleased ==
    /\ last.op \in {"update", "assign"}
          => /\ \A n \in DOMAIN last.log :
                   last.log[n].ev = "notify" => ColourLentOnce(last.log, n)
             /\ \A b \in AcquiredIn(last.log) :
                   Cardinality(AcquiredAt(last.log, b)) = Cardinality(ReleasedAt(last.log, b))
             /\ \A b \in OwnedBefore :
                   /\ AcquiredAt(last.log, b) = {}
                   /\ ReleasedAt(last.log, b) = {}
                   /\ b \notin Range(pool)
                   /\ heap[b] = last.pre.heap[b]
    /\ last.op \in {"getColor", "getSolid"}
          => /\ last.buf \notin OwnedBefore
             /\ last.buf \notin Range(pool)
             /\ ReleasedAt(last.log, last.buf) = {}
             /\ colors[Len(colors)].value = last.buf
             /\ \A b \in AcquiredIn(last.log) \ {last.buf} :
                   Cardinality(AcquiredAt(last.log, b)) = Cardinality(ReleasedAt(last.log, b))

\* an update notified f while the caller had the colour getColor returned
NotifiedAfterGetColor ==
    /\ last.op = "update"
    /\ last.prev.op = "getColor"
    /\ picker.subs = <<"f">>
    /\ Len(colors) = 2
    /\ colors[2].value = last.prev.buf
    /\ Invocations("f") = 1

----------------------------------------------------------------------------
(* The bounds table and the registered spaces, under SpecClamp *)

\* the largest bound of a channel that is not circular: the chroma of lch
LargestBound == 150 * One

\* C28: every one of the 11 registered spaces has a row in the bounds table:
\* for a colour of a registered space clampColor brings each channel into its
\* range and checkGamut tests the channels that are not circular, and no
\* registered space takes the pass-through path.
RegisteredSpacesBounded ==
    /\ Cardinality(Spaces) = 11
    /\ (last.op = "clampColor" /\ Unclamped.space \in Spaces)
          => /\ Unclamped.space \in DOMAIN CLAMP_BOUNDS
             /\ heap[Clamped.value][2] <= LargestBound
    /\ (/\ last.op = "checkGamut"
        /\ colors[last.args.i].space \in Spaces
        /\ heap[last.buf][2] > LargestBound + Tolerance)
          => ~last.args.inGamut

----------------------------------------------------------------------------
(* The hex notation, under SpecFormat *)

\* the two hex digits of a byte
HexPair(byte) == padStart(NatString(byte, 16), 2)

\* formatCss has just been called with asHex on an rgb colour
FormattedAsHex ==
    /\ last.op = "formatCss"
    /\ last.args.asHex
    /\ colors[1].space = "rgb"

\* C29: formatCss(color, alpha, asHex = true) on any rgb colour returns '#'
\* followed by exactly 6 hexadecimal digits, or exactly 8 when alpha is
\* given and below 1, each digit pair encoding only its own channel's byte
\* floor(channel * 255 + 0.5); no channel alters another channel's digits or
\* the length of the text.
HexPairPerChannel ==
    FormattedAsHex
    => LET css == last.args.css
           value == heap[colors[1].value]
           withAlpha == last.args.alpha.given /\ last.args.alpha.v < Scale
       IN  /\ css[1] = "#"
           /\ Len(css) = IF withAlpha THEN 9 ELSE 7
           /\ \A i \in 2..Len(css) : css[i] \in Range(HexDigitsOut)
           /\ \A i \in 1..3 :
                 SubSeq(css, 2 * i, 2 * i + 1)
                     = HexPair((2 * value[i] * 255 + Scale) \div (2 * Scale))
           /\ withAlpha => SubSeq(css, 8, 9) = HexPair(ByteOf(last.args.alpha.v))

----------------------------------------------------------------------------
(* The alpha component of the text, under SpecFormat *)

\* the alpha argument is given and below 1
AlphaBelowOne(alpha) == alpha.given /\ alpha.v < Scale

\* the text formatCss returns for the colour drawn with another alpha field
WithOtherAlpha(a) ==
    formatCss(heap, [colors[1] EXCEPT !.alpha = a], last.args.alpha, last.args.asHex,
              last.args.precision)

\* the text formatCss returns for the colour when no alpha argument is given
WithoutAlpha ==
    formatCss(heap, colors[1], Undefined, last.args.asHex, last.args.precision)

\* C30: formatCss writes an alpha component exactly when its alpha argument
\* is given and below 1; the colour's own alpha field never influences the
\* text, so that two colours that differ only in alpha format to the same
\* text, and parseColor(formatCss(c)) has alpha 1 whatever c.alpha is.
AlphaFromArgumentOnly ==
    /\ last.op = "formatCss"
          => /\ \A a \in ColourAlphas : WithOtherAlpha(a) = last.args.css
             /\ IF AlphaBelowOne(last.args.alpha)
                THEN /\ Len(last.args.css) > Len(WithoutAlpha)
                     /\ SubSeq(last.args.css, 1, Len(WithoutAlpha) - 1)
                           = SubSeq(WithoutAlpha, 1, Len(WithoutAlpha) - 1)
                     /\ IsHexNotation(last.args.css) \/ "/" \in Range(last.args.css)
                ELSE /\ last.args.css = WithoutAlpha
                     /\ "/" \notin Range(last.args.css)
    /\ (/\ last.op = "parseColor"
        /\ ~last.args.raised
        /\ ~last.args.asHex
        /\ ~last.args.alpha.given)
          => colors[2].alpha = Scale

\* a colour of alpha a quarter was formatted with no alpha argument and the
\* text parsed to a colour of alpha 1
QuarterAlphaParsedAsOne ==
    /\ last.op = "parseColor"
    /\ ~last.args.raised
    /\ ~last.args.asHex
    /\ ~last.args.alpha.given
    /\ colors[1].alpha = Scale \div 4
    /\ colors[1].space = "lab"
    /\ colors[2].alpha = Scale
    /\ "/" \notin Range(last.args.css)

=============================================================================
